---- MODULE Spec2Model ----
(***************************************************************************)
(* Switchipy: the theme-pairing and mode-switching engine of the XFCE      *)
(* tray application (src/app.py), its auto-switch thread                   *)
(* (src/switchipy/autoswitch.py), the theme functions                      *)
(* (src/switchipy/themes.py), the xfconf-query adapter                     *)
(* (src/switchipy/utils.py), the settings file (src/switchipy/config.py)   *)
(* and the command line (src/switchipy/cli.py).                            *)
(*                                                                         *)
(* Python strings are sequences of one-character strings; they are ordered *)
(* by code point, as Python orders them.                                   *)
(***************************************************************************)
EXTENDS Integers, Sequences, FiniteSets, TLC

\* ------------------------------------------------------------------------
\* Python str: code points, comparison, case folding
\* ------------------------------------------------------------------------

\* The characters of the model's strings with their code points: "," to ":"
\* (44..58), "A" to "Z" (65..90) and "a" to "z" (97..122).
CodePoint ==
  ("," :> 44) @@ ("-" :> 45) @@ ("." :> 46) @@ ("/" :> 47) @@ ("0" :> 48) @@
  ("1" :> 49) @@ ("2" :> 50) @@ ("3" :> 51) @@ ("4" :> 52) @@ ("5" :> 53) @@
  ("6" :> 54) @@ ("7" :> 55) @@ ("8" :> 56) @@ ("9" :> 57) @@ (":" :> 58) @@
  ("A" :> 65) @@ ("B" :> 66) @@ ("C" :> 67) @@ ("D" :> 68) @@ ("E" :> 69) @@
  ("F" :> 70) @@ ("G" :> 71) @@ ("H" :> 72) @@ ("I" :> 73) @@ ("J" :> 74) @@
  ("K" :> 75) @@ ("L" :> 76) @@ ("M" :> 77) @@ ("N" :> 78) @@ ("O" :> 79) @@
  ("P" :> 80) @@ ("Q" :> 81) @@ ("R" :> 82) @@ ("S" :> 83) @@ ("T" :> 84) @@
  ("U" :> 85) @@ ("V" :> 86) @@ ("W" :> 87) @@ ("X" :> 88) @@ ("Y" :> 89) @@
  ("Z" :> 90) @@ ("a" :> 97) @@ ("b" :> 98) @@ ("c" :> 99) @@ ("d" :> 100) @@
  ("e" :> 101) @@ ("f" :> 102) @@ ("g" :> 103) @@ ("h" :> 104) @@ ("i" :> 105) @@
  ("j" :> 106) @@ ("k" :> 107) @@ ("l" :> 108) @@ ("m" :> 109) @@ ("n" :> 110) @@
  ("o" :> 111) @@ ("p" :> 112) @@ ("q" :> 113) @@ ("r" :> 114) @@ ("s" :> 115) @@
  ("t" :> 116) @@ ("u" :> 117) @@ ("v" :> 118) @@ ("w" :> 119) @@ ("x" :> 120) @@
  ("y" :> 121) @@ ("z" :> 122)

\* Each character with its lower-case form.
LowerCase ==
  ("," :> ",") @@ ("-" :> "-") @@ ("." :> ".") @@ ("/" :> "/") @@ ("0" :> "0") @@
  ("1" :> "1") @@ ("2" :> "2") @@ ("3" :> "3") @@ ("4" :> "4") @@ ("5" :> "5") @@
  ("6" :> "6") @@ ("7" :> "7") @@ ("8" :> "8") @@ ("9" :> "9") @@ (":" :> ":") @@
  ("A" :> "a") @@ ("B" :> "b") @@ ("C" :> "c") @@ ("D" :> "d") @@ ("E" :> "e") @@
  ("F" :> "f") @@ ("G" :> "g") @@ ("H" :> "h") @@ ("I" :> "i") @@ ("J" :> "j") @@
  ("K" :> "k") @@ ("L" :> "l") @@ ("M" :> "m") @@ ("N" :> "n") @@ ("O" :> "o") @@
  ("P" :> "p") @@ ("Q" :> "q") @@ ("R" :> "r") @@ ("S" :> "s") @@ ("T" :> "t") @@
  ("U" :> "u") @@ ("V" :> "v") @@ ("W" :> "w") @@ ("X" :> "x") @@ ("Y" :> "y") @@
  ("Z" :> "z") @@ ("a" :> "a") @@ ("b" :> "b") @@ ("c" :> "c") @@ ("d" :> "d") @@
  ("e" :> "e") @@ ("f" :> "f") @@ ("g" :> "g") @@ ("h" :> "h") @@ ("i" :> "i") @@
  ("j" :> "j") @@ ("k" :> "k") @@ ("l" :> "l") @@ ("m" :> "m") @@ ("n" :> "n") @@
  ("o" :> "o") @@ ("p" :> "p") @@ ("q" :> "q") @@ ("r" :> "r") @@ ("s" :> "s") @@
  ("t" :> "t") @@ ("u" :> "u") @@ ("v" :> "v") @@ ("w" :> "w") @@ ("x" :> "x") @@
  ("y" :> "y") @@ ("z" :> "z")

\* ord(c)
Ord(c) == CodePoint[c]

\* The case folding re.IGNORECASE applies to an ASCII character.
Lower(c) == LowerCase[c]

\* str < str: lexicographic by code point, a proper prefix is smaller.
RECURSIVE StrLt(_, _)
StrLt(a, b) ==
  IF b = <<>> THEN FALSE
  ELSE IF a = <<>> THEN TRUE
  ELSE IF a[1] = b[1] THEN StrLt(Tail(a), Tail(b))
  ELSE Ord(a[1]) < Ord(b[1])

\* str <= str
StrLe(a, b) == a = b \/ StrLt(a, b)

\* The decimal digits, "0" first.
Digits == <<"0", "1", "2", "3", "4", "5", "6", "7", "8", "9">>

\* \d of a regular expression (ASCII digits).
IsDigit(c) == Ord(c) >= 48 /\ Ord(c) <= 57

\* datetime.now().strftime("%H:%M") of a clock reading [h, m]: two
\* zero-padded fields.
strftime(t) ==
  << Digits[(t.h \div 10) + 1], Digits[(t.h % 10) + 1], ":",
     Digits[(t.m \div 10) + 1], Digits[(t.m % 10) + 1] >>

\* None, the value no string equals (no string holds a multi-character item).
None == << "None" >>

\* str.split(sep) for a one-character separator.
RECURSIVE Split(_, _)
Split(s, sep) ==
  IF \E i \in 1..Len(s) : s[i] = sep
  THEN LET i == CHOOSE j \in 1..Len(s) :
                  s[j] = sep /\ \A k \in 1..(j - 1) : s[k] # sep
       IN  << SubSeq(s, 1, i - 1) >> \o Split(SubSeq(s, i + 1, Len(s)), sep)
  ELSE << s >>

\* ",".join(list)
RECURSIVE Join(_)
Join(list) ==
  IF list = <<>> THEN <<>>
  ELSE IF Len(list) = 1 THEN list[1]
  ELSE list[1] \o << "," >> \o Join(Tail(list))

\* One step of sorted(): x put into an ascending list, after the items equal
\* to it.
RECURSIVE Insert(_, _)
Insert(x, list) ==
  IF list = <<>> THEN << x >>
  ELSE IF StrLt(x, list[1]) THEN << x >> \o list
  ELSE << list[1] >> \o Insert(x, Tail(list))

\* Mutant: the list kept in the order the scan met the names.
sorted_as_scanned(list) == list

\* sorted(list) of strings
RECURSIVE sorted(_)
sorted(list) ==
  IF list = <<>> THEN <<>>
  ELSE Insert(list[Len(list)], sorted(SubSeq(list, 1, Len(list) - 1)))

\* x in list
In(x, list) == \E i \in 1..Len(list) : list[i] = x

\* ------------------------------------------------------------------------
\* themes.py: the regular expressions
\* ------------------------------------------------------------------------

W_dark == << "d", "a", "r", "k" >>
W_light == << "l", "i", "g", "h", "t" >>
W_black == << "b", "l", "a", "c", "k" >>
W_noir == << "n", "o", "i", "r" >>

\* The literal pat (lower case) matches s at position i under re.IGNORECASE.
MatchAt(pat, s, i) ==
  /\ i >= 1
  /\ i + Len(pat) - 1 <= Len(s)
  /\ \A j \in 1..Len(pat) : Lower(s[i + j - 1]) = pat[j]

\* Mutant: re.match in place of re.search (the pattern anchored at the start).
re_search_dark_anchored(s) ==
  MatchAt(W_dark, s, 1) \/ MatchAt(W_black, s, 1) \/ MatchAt(W_noir, s, 1)

\* The literal pat matches s at position i, the case of the letters kept.
MatchAtExact(pat, s, i) ==
  /\ i >= 1
  /\ i + Len(pat) - 1 <= Len(s)
  /\ \A j \in 1..Len(pat) : s[i + j - 1] = pat[j]

\* Mutant: flags=re.IGNORECASE left out.
re_search_dark_case_sensitive(s) ==
  \E i \in 1..Len(s) :
    MatchAtExact(W_dark, s, i) \/ MatchAtExact(W_black, s, i)
      \/ MatchAtExact(W_noir, s, i)

\* re.search(r"dark|black|noir", s, flags=re.IGNORECASE) finds a match.
re_search_dark(s) ==
  \E i \in 1..Len(s) :
    MatchAt(W_dark, s, i) \/ MatchAt(W_black, s, i) \/ MatchAt(W_noir, s, i)

\* The length of the match of r"-(dark|light|black|noir)" at position i of s
\* (the first alternative that matches), 0 when there is none.
SuffixLen(s, i) ==
  IF s[i] # "-" THEN 0
  ELSE IF MatchAt(W_dark, s, i + 1) THEN 1 + Len(W_dark)
  ELSE IF MatchAt(W_light, s, i + 1) THEN 1 + Len(W_light)
  ELSE IF MatchAt(W_black, s, i + 1) THEN 1 + Len(W_black)
  ELSE IF MatchAt(W_noir, s, i + 1) THEN 1 + Len(W_noir)
  ELSE 0

\* Mutant: re.sub(..., count=1), the first match only is dropped.
RECURSIVE re_sub_from_count1(_, _)
re_sub_from_count1(s, i) ==
  IF i > Len(s) THEN <<>>
  ELSE IF SuffixLen(s, i) > 0 THEN SubSeq(s, i + SuffixLen(s, i), Len(s))
  ELSE << s[i] >> \o re_sub_from_count1(s, i + 1)

\* re.sub(r"-(dark|light|black|noir)", "", s, flags=re.IGNORECASE) from
\* position i on: every match, left to right, is dropped.
RECURSIVE re_sub_from(_, _)
re_sub_from(s, i) ==
  IF i > Len(s) THEN <<>>
  ELSE IF SuffixLen(s, i) > 0 THEN re_sub_from(s, i + SuffixLen(s, i))
  ELSE << s[i] >> \o re_sub_from(s, i + 1)

base_name(theme_name) == re_sub_from(theme_name, 1)

\* get_current_mode(theme_name) for a given name.
get_current_mode(theme_name) ==
  IF re_search_dark(theme_name) THEN "dark" ELSE "light"

\* ------------------------------------------------------------------------
\* themes.py: generate_theme_map and find_counterpart_theme
\* ------------------------------------------------------------------------
\* A dict is the sequence of its items [k, v] in insertion order.

DictIndex(d, k) ==
  IF \E i \in 1..Len(d) : d[i].k = k
  THEN CHOOSE i \in 1..Len(d) : d[i].k = k
  ELSE 0

\* d[k] = v
DictSet(d, k, v) ==
  IF DictIndex(d, k) > 0
  THEN [d EXCEPT ![DictIndex(d, k)] = [k |-> k, v |-> v]]
  ELSE Append(d, [k |-> k, v |-> v])

\* The names generate_theme_map visits, in order: for each directory of
\* THEME_DIRS that exists, its entries that are directories, as iterdir
\* yields them.
RECURSIVE ScannedNames(_)
ScannedNames(dirs) ==
  IF dirs = <<>> THEN <<>>
  ELSE LET d == dirs[1]
           here == IF d.exists THEN SelectSeq(d.entries, LAMBDA e : e.is_dir)
                   ELSE <<>>
       IN  [i \in 1..Len(here) |-> here[i].name] \o ScannedNames(Tail(dirs))

\* theme_groups[base_name].append(theme_name) for every scanned name.
RECURSIVE theme_groups(_)
theme_groups(names) ==
  IF names = <<>> THEN <<>>
  ELSE LET before == theme_groups(SubSeq(names, 1, Len(names) - 1))
           name == names[Len(names)]
           base == base_name(name)
           at == DictIndex(before, base)
       IN  IF at > 0 THEN DictSet(before, base, Append(before[at].v, name))
           ELSE DictSet(before, base, << name >>)

\* Mutant: `or` in place of `and` in the test for both variants.
RECURSIVE BuildMapping_either(_)
BuildMapping_either(groups) ==
  IF groups = <<>> THEN <<>>
  ELSE LET before == BuildMapping_either(SubSeq(groups, 1, Len(groups) - 1))
           themes == groups[Len(groups)].v
           dark_variants == SelectSeq(themes, re_search_dark)
           light_variants == SelectSeq(themes, LAMBDA t : ~re_search_dark(t))
           light_str == Join(sorted(light_variants))
           dark_str == Join(sorted(dark_variants))
       IN  IF light_variants # <<>> \/ dark_variants # <<>>
           THEN DictSet(DictSet(before, light_str, dark_str), dark_str, light_str)
           ELSE before

\* Mutant: the entry from the dark list back to the light list left out.
RECURSIVE BuildMapping_one_way(_)
BuildMapping_one_way(groups) ==
  IF groups = <<>> THEN <<>>
  ELSE LET before == BuildMapping_one_way(SubSeq(groups, 1, Len(groups) - 1))
           themes == groups[Len(groups)].v
           dark_variants == SelectSeq(themes, re_search_dark)
           light_variants == SelectSeq(themes, LAMBDA t : ~re_search_dark(t))
           light_str == Join(sorted(light_variants))
           dark_str == Join(sorted(dark_variants))
       IN  IF light_variants # <<>> /\ dark_variants # <<>>
           THEN DictSet(before, light_str, dark_str)
           ELSE before

\* Mutant: light_variants and dark_variants set up once, before the loop over
\* the families, so that they go on growing from family to family.
RECURSIVE AllThemes(_)
AllThemes(groups) ==
  IF groups = <<>> THEN <<>> ELSE groups[1].v \o AllThemes(Tail(groups))
RECURSIVE BuildMapping_accumulate(_)
BuildMapping_accumulate(groups) ==
  IF groups = <<>> THEN <<>>
  ELSE LET before == BuildMapping_accumulate(SubSeq(groups, 1, Len(groups) - 1))
           themes == AllThemes(groups)
           dark_variants == SelectSeq(themes, re_search_dark)
           light_variants == SelectSeq(themes, LAMBDA t : ~re_search_dark(t))
           light_str == Join(sorted(light_variants))
           dark_str == Join(sorted(dark_variants))
       IN  IF light_variants # <<>> /\ dark_variants # <<>>
           THEN DictSet(DictSet(before, light_str, dark_str), dark_str, light_str)
           ELSE before

\* The loop over theme_groups.items() that fills mapping.
RECURSIVE BuildMapping(_)
BuildMapping(groups) ==
  IF groups = <<>> THEN <<>>
  ELSE LET before == BuildMapping(SubSeq(groups, 1, Len(groups) - 1))
           themes == groups[Len(groups)].v
           dark_variants == SelectSeq(themes, re_search_dark)
           light_variants == SelectSeq(themes, LAMBDA t : ~re_search_dark(t))
           light_str == Join(sorted(light_variants))
           dark_str == Join(sorted(dark_variants))
       IN  IF light_variants # <<>> /\ dark_variants # <<>>
           THEN DictSet(DictSet(before, light_str, dark_str), dark_str, light_str)
           ELSE before

generate_theme_map(dirs) == BuildMapping(theme_groups(ScannedNames(dirs)))

\* The items of theme_map that list theme_name on either side.
Hits(theme_name, theme_map) ==
  { i \in 1..Len(theme_map) :
      \/ In(theme_name, Split(theme_map[i].k, ","))
      \/ In(theme_name, Split(theme_map[i].v, ",")) }

\* Mutant: the last member of the other side in place of the first.
find_counterpart_theme_last(theme_name, theme_map) ==
  IF Hits(theme_name, theme_map) = {} THEN None
  ELSE LET i == CHOOSE i \in Hits(theme_name, theme_map) :
                  \A j \in Hits(theme_name, theme_map) : i <= j
           key == Split(theme_map[i].k, ",")
           value == Split(theme_map[i].v, ",")
       IN  IF In(theme_name, key) THEN value[Len(value)] ELSE key[Len(key)]

\* Mutant: a theme no item lists gets the first member of the first key.
find_counterpart_theme_fallback(theme_name, theme_map) ==
  IF Hits(theme_name, theme_map) = {}
  THEN IF theme_map = <<>> THEN None ELSE Split(theme_map[1].k, ",")[1]
  ELSE LET i == CHOOSE i \in Hits(theme_name, theme_map) :
                  \A j \in Hits(theme_name, theme_map) : i <= j
       IN  IF In(theme_name, Split(theme_map[i].k, ","))
           THEN Split(theme_map[i].v, ",")[1]
           ELSE Split(theme_map[i].k, ",")[1]

\* find_counterpart_theme(theme_name, theme_map): the first item that lists
\* theme_name on either side decides; None when no item does.
RECURSIVE find_counterpart_theme(_, _)
find_counterpart_theme(theme_name, theme_map) ==
  IF theme_map = <<>> THEN None
  ELSE IF In(theme_name, Split(theme_map[1].k, ","))
       THEN Split(theme_map[1].v, ",")[1]
  ELSE IF In(theme_name, Split(theme_map[1].v, ","))
       THEN Split(theme_map[1].k, ",")[1]
  ELSE find_counterpart_theme(theme_name, Tail(theme_map))

\* ------------------------------------------------------------------------
\* app.py / cli.py: the dark window
\* ------------------------------------------------------------------------

\* Mutant: the end of a window that does not wrap taken as inclusive.
is_dark_time_inclusive_end(dark_start, dark_end, now) ==
  IF StrLt(dark_start, dark_end)
  THEN StrLe(dark_start, now) /\ StrLe(now, dark_end)
  ELSE StrLe(dark_start, now) \/ StrLt(now, dark_end)

\* is_dark_time with the configured window and now = strftime("%H:%M").
is_dark_time(dark_start, dark_end, now) ==
  IF StrLt(dark_start, dark_end)
  THEN StrLe(dark_start, now) /\ StrLt(now, dark_end)
  ELSE StrLe(dark_start, now) \/ StrLt(now, dark_end)

\* re.match(r"^\d{2}:\d{2}-\d{2}:\d{2}$", interval) on the stripped text.
re_match_interval(interval) ==
  /\ Len(interval) = 11
  /\ \A i \in {1, 2, 4, 5, 7, 8, 10, 11} : IsDigit(interval[i])
  /\ interval[3] = ":" /\ interval[9] = ":"
  /\ interval[6] = "-"

\* ------------------------------------------------------------------------
\* utils.py: the xfconf-query adapter
\* ------------------------------------------------------------------------
\* The state of the external command: "ok" (it runs and exits 0), "error" (it
\* exits non-zero) or "missing" (no such executable).

XfconfStates == {"ok", "error", "missing"}

\* run_cmd catches subprocess.CalledProcessError only: starting a command that
\* does not exist raises FileNotFoundError, which leaves run_cmd.
run_cmd_raises(status) == status = "missing"

\* run_cmd(cmd) when it returns: the output, or None after a non-zero exit.
run_cmd(status, stdout) == IF status = "ok" THEN stdout ELSE None

\* xfconf_query_get(channel, prop) when it returns.
xfconf_query_get(status, value) == run_cmd(status, value)

\* The property after xfconf_query_set(channel, prop, value) returned.
xfconf_query_set(status, old, value) == IF status = "ok" THEN value ELSE old

\* get_current_theme(): xfconf_query_get(...) or ""
get_current_theme(status, value) ==
  IF xfconf_query_get(status, value) = None \/ xfconf_query_get(status, value) = <<>>
  THEN <<>>
  ELSE xfconf_query_get(status, value)

\* set_theme: some directory of THEME_DIRS holds <theme_name>/xfwm4.
HasXfwm4(dirs, theme_name) ==
  \E i \in 1..Len(dirs) : \E j \in 1..Len(dirs[i].entries) :
    /\ dirs[i].exists
    /\ dirs[i].entries[j].name = theme_name
    /\ dirs[i].entries[j].is_dir
    /\ dirs[i].entries[j].xfwm4

\* ------------------------------------------------------------------------
\* config.py: the settings
\* ------------------------------------------------------------------------
\* A settings dict is a function from its keys; a string value is a sequence
\* of characters.

Keys == {"auto_switch_enabled", "dark_start", "dark_end", "last_theme"}

T_1900 == << "1", "9", ":", "0", "0" >>
T_0500 == << "0", "5", ":", "0", "0" >>

DEFAULT_CONFIG ==
  [auto_switch_enabled |-> FALSE, dark_start |-> T_1900, dark_end |-> T_0500,
   last_theme |-> <<>>]

EmptyObj == [k \in {} |-> FALSE]

\* d[k] = v
Put(d, k, v) == [x \in (DOMAIN d) \cup {k} |-> IF x = k THEN v ELSE d[x]]

\* d.get(k, default)
Get(d, k, default) == IF k \in DOMAIN d THEN d[k] ELSE default

\* load_config(): the object of the file, DEFAULT_CONFIG when the file does
\* not exist or json.load fails.
load_config(f) == IF f.kind = "json" THEN f.obj ELSE DEFAULT_CONFIG

\* The file after save_config(config) wrote it.
save_config(cfg) == [kind |-> "json", obj |-> cfg]

\* ------------------------------------------------------------------------
\* config.py: the text of the settings file (json.dump, json.load)
\* ------------------------------------------------------------------------
\* The text of the file is a sequence of characters. Besides the characters
\* of the theme names it has the ones JSON is written with and the ones the
\* encoder escapes.

TextCodePoint ==
  CodePoint @@ ("\n" :> 10) @@ (" " :> 32) @@ ("\"" :> 34) @@ ("\\" :> 92) @@
  ("_" :> 95) @@ ("{" :> 123) @@ ("}" :> 125) @@ ("é" :> 233)

\* ord(c) and chr(n)
OrdText(c) == TextCodePoint[c]
ChrText(n) == CHOOSE c \in DOMAIN TextCodePoint : TextCodePoint[c] = n

HexDigits ==
  << "0", "1", "2", "3", "4", "5", "6", "7", "8", "9", "a", "b", "c", "d", "e", "f" >>

\* '\\u{0:04x}'.format(n)
EscapeU(n) ==
  << "\\", "u", HexDigits[((n \div 4096) % 16) + 1],
     HexDigits[((n \div 256) % 16) + 1], HexDigits[((n \div 16) % 16) + 1],
     HexDigits[(n % 16) + 1] >>

\* Mutant: the double quote written as it is.
json_escape_quote_kept(c) ==
  IF c = "\\" THEN << "\\", "\\" >>
  ELSE IF c = "\n" THEN << "\\", "n" >>
  ELSE IF OrdText(c) < 32 \/ OrdText(c) > 126 THEN EscapeU(OrdText(c))
  ELSE << c >>

\* json.encoder with ensure_ascii: what a character of a string is written
\* as (ESCAPE_ASCII: the quote, the backslash and everything outside " ".."~").
json_escape(c) ==
  IF c = "\"" THEN << "\\", "\"" >>
  ELSE IF c = "\\" THEN << "\\", "\\" >>
  ELSE IF c = "\n" THEN << "\\", "n" >>
  ELSE IF OrdText(c) < 32 \/ OrdText(c) > 126 THEN EscapeU(OrdText(c))
  ELSE << c >>

\* A str as JSON text.
RECURSIVE json_escape_all(_)
json_escape_all(str) ==
  IF str = <<>> THEN <<>> ELSE json_escape(str[1]) \o json_escape_all(Tail(str))
json_dump_str(str) == << "\"" >> \o json_escape_all(str) \o << "\"" >>

\* The value of key k as JSON text. The encoder goes by the type of the
\* value: in the settings auto_switch_enabled holds the bool, the other keys
\* hold a str.
json_dump_value(k, v) ==
  IF k = "auto_switch_enabled"
  THEN IF v THEN << "t", "r", "u", "e" >> ELSE << "f", "a", "l", "s", "e" >>
  ELSE json_dump_str(v)

\* The keys of the settings as Python strings, in the order of
\* DEFAULT_CONFIG.
KeyOrder == << "auto_switch_enabled", "dark_start", "dark_end", "last_theme" >>
KeyText ==
  [auto_switch_enabled |->
     << "a", "u", "t", "o", "_", "s", "w", "i", "t", "c", "h", "_",
        "e", "n", "a", "b", "l", "e", "d" >>,
   dark_start |-> << "d", "a", "r", "k", "_", "s", "t", "a", "r", "t" >>,
   dark_end |-> << "d", "a", "r", "k", "_", "e", "n", "d" >>,
   last_theme |-> << "l", "a", "s", "t", "_", "t", "h", "e", "m", "e" >>]

\* The items of a dict with indent=2: each on a line of its own behind two
\* spaces, "," between them, ": " between key and value.
RECURSIVE json_dump_items(_, _)
json_dump_items(obj, keys) ==
  IF keys = <<>> THEN <<>>
  ELSE << "\n", " ", " " >> \o json_dump_str(KeyText[keys[1]]) \o << ":", " " >>
         \o json_dump_value(keys[1], obj[keys[1]])
         \o (IF Len(keys) > 1 THEN << "," >> ELSE <<>>)
         \o json_dump_items(obj, Tail(keys))

\* json.dump(config, f, indent=2): the text written.
json_dump(obj) ==
  LET keys == SelectSeq(KeyOrder, LAMBDA k : k \in DOMAIN obj)
  IN  IF keys = <<>> THEN << "{", "}" >>
      ELSE << "{" >> \o json_dump_items(obj, keys) \o << "\n", "}" >>

\* The decoder gives up: json.JSONDecodeError.
ScanFail == [ok |-> FALSE, pos |-> 0, val |-> <<>>]

\* The whitespace the decoder skips.
RECURSIVE SkipWs(_, _)
SkipWs(text, i) ==
  IF i <= Len(text) /\ text[i] \in {" ", "\n"} THEN SkipWs(text, i + 1) ELSE i

\* text has the literal lit at position i.
HasAt(text, i, lit) ==
  i + Len(lit) - 1 <= Len(text) /\ SubSeq(text, i, i + Len(lit) - 1) = lit

\* int(esc, 16) of a hexadecimal digit, -1 for another character.
HexVal(c) ==
  IF \E n \in 1..16 : HexDigits[n] = Lower(c)
  THEN (CHOOSE n \in 1..16 : HexDigits[n] = Lower(c)) - 1
  ELSE 0 - 1

\* py_scanstring (strict) from position i, behind the opening quote: the str
\* up to the closing quote and the position behind it.
RECURSIVE scanstring(_, _, _)
scanstring(text, i, acc) ==
  IF i > Len(text) THEN ScanFail
  ELSE IF text[i] = "\"" THEN [ok |-> TRUE, pos |-> i + 1, val |-> acc]
  ELSE IF text[i] = "\\"
  THEN IF i + 1 > Len(text) THEN ScanFail
       ELSE IF text[i + 1] = "u"
       THEN IF /\ i + 5 <= Len(text)
               /\ \A j \in 2..5 : text[i + j] \in DOMAIN LowerCase
               /\ \A j \in 2..5 : HexVal(text[i + j]) >= 0
            THEN scanstring(text, i + 6,
                   Append(acc, ChrText(HexVal(text[i + 2]) * 4096
                                        + HexVal(text[i + 3]) * 256
                                        + HexVal(text[i + 4]) * 16
                                        + HexVal(text[i + 5]))))
            ELSE ScanFail
       ELSE IF text[i + 1] \in {"\"", "\\", "/"}
       THEN scanstring(text, i + 2, Append(acc, text[i + 1]))
       ELSE IF text[i + 1] = "n" THEN scanstring(text, i + 2, Append(acc, "\n"))
       ELSE ScanFail
  ELSE IF OrdText(text[i]) < 32 THEN ScanFail
  ELSE scanstring(text, i + 1, Append(acc, text[i]))

\* A value at position i: a string, true or false.
scan_value(text, i) ==
  IF HasAt(text, i, << "\"" >>) THEN scanstring(text, i + 1, <<>>)
  ELSE IF HasAt(text, i, << "t", "r", "u", "e" >>)
  THEN [ok |-> TRUE, pos |-> i + 4, val |-> TRUE]
  ELSE IF HasAt(text, i, << "f", "a", "l", "s", "e" >>)
  THEN [ok |-> TRUE, pos |-> i + 5, val |-> FALSE]
  ELSE ScanFail

\* The key of the settings a Python string is; the texts the model reads
\* have no other keys.
KeyOf(str) ==
  IF \E k \in DOMAIN KeyText : KeyText[k] = str
  THEN CHOOSE k \in DOMAIN KeyText : KeyText[k] = str
  ELSE "other"

\* JSONObject from position i, behind "{" and the whitespace: the pairs up to
\* "}", a later pair replacing an earlier one with its key.
RECURSIVE scan_pairs(_, _, _)
scan_pairs(text, i, obj) ==
  IF ~HasAt(text, i, << "\"" >>) THEN ScanFail
  ELSE LET key == scanstring(text, i + 1, <<>>)
           colon == SkipWs(text, key.pos)
           value == scan_value(text, SkipWs(text, colon + 1))
           next == SkipWs(text, value.pos)
       IN  IF ~key.ok \/ ~HasAt(text, colon, << ":" >>) THEN ScanFail
           ELSE IF ~value.ok THEN ScanFail
           ELSE IF HasAt(text, next, << "}" >>)
           THEN [ok |-> TRUE, pos |-> next + 1,
                 val |-> Put(obj, KeyOf(key.val), value.val)]
           ELSE IF HasAt(text, next, << "," >>)
           THEN scan_pairs(text, SkipWs(text, next + 1),
                           Put(obj, KeyOf(key.val), value.val))
           ELSE ScanFail

\* json.load(f) of a text that is to hold one object: the object, or the
\* decoder gives up (also on text behind the object).
json_load(text) ==
  LET start == SkipWs(text, 1)
      first == SkipWs(text, start + 1)
      parsed == IF ~HasAt(text, start, << "{" >>) THEN ScanFail
                ELSE IF HasAt(text, first, << "}" >>)
                THEN [ok |-> TRUE, pos |-> first + 1, val |-> EmptyObj]
                ELSE scan_pairs(text, first, EmptyObj)
  IN  IF parsed.ok /\ SkipWs(text, parsed.pos) = Len(text) + 1 THEN parsed
      ELSE ScanFail

\* Mutant: without the try around open and json.load.
load_config_from_unguarded(path) ==
  IF path.kind = "absent"
  THEN [raised |-> FALSE, value |-> DEFAULT_CONFIG]
  ELSE IF path.kind = "unreadable" THEN [raised |-> TRUE, value |-> None]
  ELSE IF json_load(path.text).ok
  THEN [raised |-> FALSE, value |-> json_load(path.text).val]
  ELSE [raised |-> TRUE, value |-> None]

\* load_config() with CONFIG_PATH absent, of a kind open() raises on
\* ("unreadable"), or holding a text: what it returns and whether it raised.
load_config_from(path) ==
  IF path.kind = "absent"
  THEN [raised |-> FALSE, value |-> DEFAULT_CONFIG]
  ELSE IF path.kind = "unreadable"
  THEN [raised |-> FALSE, value |-> DEFAULT_CONFIG]
  ELSE IF json_load(path.text).ok
  THEN [raised |-> FALSE, value |-> json_load(path.text).val]
  ELSE [raised |-> FALSE, value |-> DEFAULT_CONFIG]

\* CONFIG_PATH after save_config(config) opened it and wrote the text.
save_config_to(cfg) == [kind |-> "text", text |-> json_dump(cfg)]

\* ------------------------------------------------------------------------
\* autoswitch.py: the decision and the handler of start_auto_switch
\* ------------------------------------------------------------------------

\* Mutant: every evaluation calls app.toggle_theme().
ShouldToggle_every_time(should_be_dark, current_mode) ==
  current_mode \in {"light", "dark"}

\* Mutant: the elif branch left out.
ShouldToggle_dark_only(should_be_dark, current_mode) ==
  should_be_dark /\ current_mode = "light"

\* The two branches that call app.toggle_theme().
ShouldToggle(should_be_dark, current_mode) ==
  \/ should_be_dark /\ current_mode = "light"
  \/ ~should_be_dark /\ current_mode = "dark"

\* time.sleep(60) at the end of an evaluation
SLEEP_SECONDS == 60

\* time.sleep(60) of the except clause
RETRY_SECONDS == 60

\* Mutant: the exception leaves the thread's function.
OnException_ends_thread(delay) == [pc |-> "dead", delay |-> delay]

\* except Exception: the loop prints, sleeps and goes on.
OnException(delay) == [pc |-> "sleep", delay |-> delay]

\* ------------------------------------------------------------------------
\* The installed themes, the inputs and the bounds
\* ------------------------------------------------------------------------

N_Arc == << "A", "r", "c" >>
N_ArcDark == << "A", "r", "c", "-", "D", "a", "r", "k" >>
N_ArcBlack == << "A", "r", "c", "-", "B", "l", "a", "c", "k" >>
N_ArcLight == << "A", "r", "c", "-", "l", "i", "g", "h", "t" >>
N_Xfce == << "X", "f", "c", "e" >>
N_README == << "R", "E", "A", "D", "M", "E" >>

ThemeNames == {N_Arc, N_ArcDark, N_ArcBlack, N_ArcLight, N_Xfce}

\* The themes the command `set <theme>` is given.
CliThemes == {N_ArcDark, N_Xfce}

\* The items of the theme submenus the user clicks.
ClickedThemes == {N_ArcBlack, N_Arc}

Entry(name, xfwm4) == [name |-> name, is_dir |-> TRUE, xfwm4 |-> xfwm4]

\* THEME_DIRS: ~/.themes and /usr/share/themes, each with its entries in
\* iterdir order.
THEME_DIRS ==
  << [exists |-> TRUE,
      entries |-> << Entry(N_ArcDark, TRUE), Entry(N_Arc, TRUE) >>],
     [exists |-> TRUE,
      entries |-> << Entry(N_ArcLight, FALSE), Entry(N_ArcBlack, FALSE),
                     Entry(N_Xfce, TRUE), Entry(N_Arc, TRUE),
                     [name |-> N_README, is_dir |-> FALSE, xfwm4 |-> FALSE] >>] >>

\* The settings file at start: absent, complete, or an object with the
\* window keys only.
InitialFiles ==
  { [kind |-> "absent", obj |-> EmptyObj],
    save_config([DEFAULT_CONFIG EXCEPT !.auto_switch_enabled = TRUE]),
    save_config([dark_start |-> T_1900, dark_end |-> T_0500]) }

\* What the user types into the set-interval dialog (after strip()).
I_2200_0600 == << "2", "2", ":", "0", "0", "-", "0", "6", ":", "0", "0" >>
I_2599_0500 == << "2", "5", ":", "9", "9", "-", "0", "5", ":", "0", "0" >>
I_1900_0500 == << "1", "9", "0", "0", "-", "0", "5", "0", "0" >>

IntervalInputs == {I_2200_0600, I_2599_0500, I_1900_0500}

\* The arguments of the command `interval <start> <end>`.
T_0900 == << "0", "9", ":", "0", "0" >>
T_1700 == << "1", "7", ":", "0", "0" >>
T_9 == << "9" >>

CliIntervals == { << T_0900, T_1700 >>, << T_9, T_1700 >> }

\* The readings of the wall clock the model visits, in the order of the day.
ClockReadings == << [h |-> 19, m |-> 0], [h |-> 12, m |-> 0] >>

\* The number of events from outside the threads' own steps (user actions,
\* commands, clock readings passing, the external command changing state).
MaxEvents == 2

Threads == {"loop", "gtk", "hotkey"}

VARIABLES
  scanned,      \* what generate_theme_map() returns on these directories
  config,       \* app.config
  file,         \* ~/.switchipy_config.json
  xsettings,    \* xsettings /Net/ThemeName
  xfwm4,        \* xfwm4 /general/theme
  xfconf,       \* the state of the xfconf-query command
  clock,        \* index into ClockReadings
  lpc,          \* start_auto_switch: where the thread is
  l_mode,       \* current_mode
  l_now,        \* is_dark_time: now
  l_start,      \* is_dark_time: dark_start
  l_end,        \* is_dark_time: dark_end
  l_dark,       \* should_be_dark
  l_decided,    \* this evaluation reached the comparison
  l_err,        \* this evaluation ended in the except clause
  l_toggles,    \* calls of app.toggle_theme() in this evaluation
  l_delay,      \* the argument of the time.sleep the thread is in
  tpc,          \* per thread: where its toggle_theme / set_theme call is
  tcall,        \* per thread: "toggle" or "set_theme"
  tcur,         \* per thread: toggle_theme's current
  tcp,          \* per thread: the theme being applied
  twrites,      \* per thread: xfconf_query_set calls of the call so far
  tres,         \* per thread: how its last call ended
  gpc,          \* the GTK thread: the callback it runs
  g_end,        \* set_dark_interval: end
  gres,         \* how the last settings callback ended
  cli,          \* the last command: its name, exit code and report
  events,       \* events from outside so far
  fn            \* the function application of SpecFn

vars ==
  << scanned, config, file, xsettings, xfwm4, xfconf, clock,
     lpc, l_mode, l_now, l_start, l_end, l_dark, l_decided, l_err, l_toggles,
     l_delay, tpc, tcall, tcur, tcp, twrites, tres, gpc, g_end, gres, cli,
     events, fn >>

envVars == << xsettings, xfwm4 >>

\* self.theme_map = generate_theme_map(), assigned in __init__ only.
theme_map == scanned

\* cli.py toggle_theme: theme_map = generate_theme_map(), the scan of the
\* same directories by the command's process.
cli_theme_map == scanned
loopLocals == << l_mode, l_now, l_start, l_end, l_dark, l_decided, l_toggles >>
loopVars == << lpc, l_mode, l_now, l_start, l_end, l_dark, l_decided, l_err,
               l_toggles, l_delay >>
callVars == << tpc, tcall, tcur, tcp, twrites, tres >>
gtkVars == << gpc, g_end, gres >>

NoCli == [cmd |-> "none", exit |-> 0, report |-> "none"]

NoFn == [op |-> "none"]

\* SwitchipyApp.__init__ has run: the settings are loaded, the map is
\* generated, the auto-switch thread is about to make its first evaluation.
\* main() has found xfconf-query installed. rebuild_menu, which __init__
\* calls, reads self.config['dark_start'] and self.config['dark_end']:
\* __init__ returns only with settings that have both keys.
Init ==
  /\ scanned = generate_theme_map(THEME_DIRS)
  /\ file \in InitialFiles
  /\ config = load_config(file)
  /\ "dark_start" \in DOMAIN config /\ "dark_end" \in DOMAIN config
  /\ xsettings \in {N_ArcLight, N_ArcDark}
  /\ xfwm4 = N_Xfce
  /\ xfconf = "ok"
  /\ clock = 1
  /\ lpc = "eval"
  /\ l_mode = "none" /\ l_now = None /\ l_start = None /\ l_end = None
  /\ l_dark = FALSE /\ l_decided = FALSE /\ l_err = FALSE
  /\ l_toggles = 0 /\ l_delay = 0
  /\ tpc = [t \in Threads |-> "idle"]
  /\ tcall = [t \in Threads |-> "none"]
  /\ tcur = [t \in Threads |-> <<>>]
  /\ tcp = [t \in Threads |-> <<>>]
  /\ twrites = [t \in Threads |-> 0]
  /\ tres = [t \in Threads |-> "none"]
  /\ gpc = "idle" /\ g_end = None /\ gres = "none"
  /\ cli = NoCli
  /\ events = 0
  /\ fn = NoFn

\* ------------------------------------------------------------------------
\* Calls of toggle_theme and set_theme, one per thread at a time
\* ------------------------------------------------------------------------

\* Thread t enters toggle_theme (call = "toggle", at get_current_theme) or
\* set_theme(name) (call = "set_theme", at the first write).
CallStarts(t, call, name) ==
  /\ tpc' = [tpc EXCEPT ![t] = IF call = "toggle" THEN "get" ELSE "set"]
  /\ tcall' = [tcall EXCEPT ![t] = call]
  /\ tcur' = [tcur EXCEPT ![t] = <<>>]
  /\ tcp' = [tcp EXCEPT ![t] = name]
  /\ twrites' = [twrites EXCEPT ![t] = 0]
  /\ tres' = [tres EXCEPT ![t] = "running"]

\* The call of thread t ends with result ("raised": an exception leaves it).
\* In the auto-switch thread the call returns to the time.sleep(60) of the
\* loop, an exception to its except clause; a GTK callback or the hotkey
\* listener is done either way.
CallEnds(t, result) ==
  /\ tpc' = [tpc EXCEPT ![t] = "idle"]
  /\ tcall' = [tcall EXCEPT ![t] = "none"]
  /\ tcur' = [tcur EXCEPT ![t] = <<>>]
  /\ tcp' = [tcp EXCEPT ![t] = <<>>]
  /\ tres' = [tres EXCEPT ![t] = result]
  /\ IF t = "loop"
     THEN IF result = "raised"
          THEN /\ lpc' = OnException(RETRY_SECONDS).pc
               /\ l_delay' = OnException(RETRY_SECONDS).delay
               /\ l_err' = TRUE
          ELSE /\ lpc' = "sleep"
               /\ l_delay' = SLEEP_SECONDS
               /\ UNCHANGED l_err
     ELSE UNCHANGED << lpc, l_delay, l_err >>
  /\ gpc' = IF t = "gtk" THEN "idle" ELSE gpc
  /\ UNCHANGED << scanned, loopLocals, g_end, gres >>

\* toggle_theme: current = get_current_theme(); counterpart =
\* find_counterpart_theme(current, self.theme_map); without a counterpart the
\* call prints and returns.
ToggleGet(t) ==
  /\ tpc[t] = "get"
  /\ IF run_cmd_raises(xfconf)
     THEN CallEnds(t, "raised")
     ELSE LET current == get_current_theme(xfconf, xsettings)
              counterpart == find_counterpart_theme(current, theme_map)
          IN  IF counterpart # None /\ counterpart # <<>>
              THEN /\ tpc' = [tpc EXCEPT ![t] = "set"]
                   /\ tcur' = [tcur EXCEPT ![t] = current]
                   /\ tcp' = [tcp EXCEPT ![t] = counterpart]
                   /\ UNCHANGED << tcall, tres, loopVars, gtkVars >>
              ELSE CallEnds(t, "no_counterpart")
  /\ UNCHANGED << scanned, config, file, envVars, xfconf, clock, twrites, cli,
                  events, fn >>

\* Where a call goes on after its writes: toggle_theme reads the mode for the
\* icon, set_theme from the menu returns.
AfterWrites(t) ==
  IF tcall[t] = "toggle"
  THEN /\ tpc' = [tpc EXCEPT ![t] = "icon"]
       /\ UNCHANGED << tcall, tcur, tcp, tres, loopVars, gtkVars >>
  ELSE CallEnds(t, "done")

\* set_theme: xfconf_query_set(XFCONF_CHANNEL, XFCONF_PROPERTY, theme_name),
\* then the search of THEME_DIRS for <theme_name>/xfwm4.
SetMain(t) ==
  /\ tpc[t] = "set"
  /\ IF run_cmd_raises(xfconf)
     THEN /\ CallEnds(t, "raised")
          /\ UNCHANGED << xsettings, twrites >>
     ELSE /\ xsettings' = xfconf_query_set(xfconf, xsettings, tcp[t])
          /\ twrites' = [twrites EXCEPT ![t] = @ + 1]
          /\ IF HasXfwm4(THEME_DIRS, tcp[t])
             THEN /\ tpc' = [tpc EXCEPT ![t] = "xfwm"]
                  /\ UNCHANGED << tcall, tcur, tcp, tres, loopVars, gtkVars >>
             ELSE AfterWrites(t)
  /\ UNCHANGED << scanned, config, file, xfwm4, xfconf, clock, cli, events, fn >>

\* set_theme: xfconf_query_set("xfwm4", "/general/theme", theme_name); break
SetXfwm(t) ==
  /\ tpc[t] = "xfwm"
  /\ IF run_cmd_raises(xfconf)
     THEN /\ CallEnds(t, "raised")
          /\ UNCHANGED << xfwm4, twrites >>
     ELSE /\ xfwm4' = xfconf_query_set(xfconf, xfwm4, tcp[t])
          /\ twrites' = [twrites EXCEPT ![t] = @ + 1]
          /\ AfterWrites(t)
  /\ UNCHANGED << scanned, config, file, xsettings, xfconf, clock, cli, events,
                  fn >>

\* toggle_theme: update_icon(self.indicator, get_current_mode()); the call
\* ends with the mode it read.
ToggleIcon(t) ==
  /\ tpc[t] = "icon"
  /\ IF run_cmd_raises(xfconf)
     THEN CallEnds(t, "raised")
     ELSE CallEnds(t, get_current_mode(get_current_theme(xfconf, xsettings)))
  /\ UNCHANGED << scanned, config, file, envVars, xfconf, clock, twrites, cli,
                  events, fn >>

\* ------------------------------------------------------------------------
\* start_auto_switch: the thread of the auto-switch loop
\* ------------------------------------------------------------------------

\* An exception raised in the try block outside toggle_theme.
LoopRaises ==
  /\ lpc' = OnException(RETRY_SECONDS).pc
  /\ l_delay' = OnException(RETRY_SECONDS).delay
  /\ l_err' = TRUE

\* Mutant: the thread evaluates whatever the flag says.
LoopEval_flag_ignored ==
  /\ lpc = "eval"
  /\ lpc' = "mode" /\ UNCHANGED l_delay
  /\ UNCHANGED << scanned, config, file, envVars, xfconf, clock, loopLocals,
                  l_err, callVars, gtkVars, cli, events, fn >>

\* Mutant: the thread reads the flag from the settings file.
LoopEval_reads_file ==
  /\ lpc = "eval"
  /\ IF Get(load_config(file), "auto_switch_enabled", FALSE)
     THEN lpc' = "mode" /\ UNCHANGED l_delay
     ELSE lpc' = "sleep" /\ l_delay' = SLEEP_SECONDS
  /\ UNCHANGED << scanned, config, file, envVars, xfconf, clock, loopLocals,
                  l_err, callVars, gtkVars, cli, events, fn >>

\* if app.config.get('auto_switch_enabled', False): ... time.sleep(60)
LoopEval ==
  /\ lpc = "eval"
  /\ IF Get(config, "auto_switch_enabled", FALSE)
     THEN lpc' = "mode" /\ UNCHANGED l_delay
     ELSE lpc' = "sleep" /\ l_delay' = SLEEP_SECONDS
  /\ UNCHANGED << scanned, config, file, envVars, xfconf, clock, loopLocals,
                  l_err, callVars, gtkVars, cli, events, fn >>

\* current_mode = get_current_mode()
LoopMode ==
  /\ lpc = "mode"
  /\ IF run_cmd_raises(xfconf)
     THEN LoopRaises /\ UNCHANGED l_mode
     ELSE /\ l_mode' = get_current_mode(get_current_theme(xfconf, xsettings))
          /\ lpc' = "start"
          /\ UNCHANGED << l_delay, l_err >>
  /\ UNCHANGED << scanned, config, file, envVars, xfconf, clock, l_now, l_start,
                  l_end, l_dark, l_decided, l_toggles, callVars, gtkVars, cli,
                  events, fn >>

\* is_dark_time: now = datetime.now().strftime("%H:%M");
\* dark_start = self.config["dark_start"]
LoopStart ==
  /\ lpc = "start"
  /\ l_now' = strftime(ClockReadings[clock])
  /\ IF "dark_start" \in DOMAIN config
     THEN /\ l_start' = config["dark_start"]
          /\ lpc' = "end"
          /\ UNCHANGED << l_delay, l_err >>
     ELSE LoopRaises /\ UNCHANGED l_start
  /\ UNCHANGED << scanned, config, file, envVars, xfconf, clock, l_mode, l_end,
                  l_dark, l_decided, l_toggles, callVars, gtkVars, cli, events,
                  fn >>

\* is_dark_time: dark_end = self.config["dark_end"] and the comparison; then
\* the two branches of the loop.
LoopEnd ==
  /\ lpc = "end"
  /\ IF "dark_end" \in DOMAIN config
     THEN LET dark_end == config["dark_end"]
              should_be_dark == is_dark_time(l_start, dark_end, l_now)
          IN  /\ l_end' = dark_end
              /\ l_dark' = should_be_dark
              /\ l_decided' = TRUE
              /\ UNCHANGED l_err
              /\ IF ShouldToggle(should_be_dark, l_mode)
                 THEN /\ l_toggles' = l_toggles + 1
                      /\ lpc' = "toggle"
                      /\ CallStarts("loop", "toggle", <<>>)
                      /\ UNCHANGED l_delay
                 ELSE /\ lpc' = "sleep"
                      /\ l_delay' = SLEEP_SECONDS
                      /\ UNCHANGED << l_toggles, callVars >>
     ELSE /\ LoopRaises
          /\ UNCHANGED << l_end, l_dark, l_decided, l_toggles, callVars >>
  /\ UNCHANGED << scanned, config, file, envVars, xfconf, clock, l_mode, l_now,
                  l_start, gtkVars, cli, events, fn >>

\* time.sleep returns; while True: the next evaluation starts. The record of
\* the evaluation that is over, its toggle_theme call included, is dropped.
LoopWake ==
  /\ lpc = "sleep"
  /\ lpc' = "eval"
  /\ l_mode' = "none" /\ l_now' = None /\ l_start' = None /\ l_end' = None
  /\ l_dark' = FALSE /\ l_decided' = FALSE /\ l_err' = FALSE
  /\ l_toggles' = 0 /\ l_delay' = 0
  /\ tres' = [tres EXCEPT !["loop"] = "none"]
  /\ twrites' = [twrites EXCEPT !["loop"] = 0]
  /\ UNCHANGED << scanned, config, file, envVars, xfconf, clock, tpc, tcall,
                  tcur, tcp, gtkVars, cli, events, fn >>

\* ------------------------------------------------------------------------
\* The GTK main thread: the menu callbacks of SwitchipyApp
\* ------------------------------------------------------------------------

\* The themes of the two submenus rebuild_menu fills: every member of every
\* key of theme_map.
MenuThemes(tm) ==
  { name \in ThemeNames : \E i \in 1..Len(tm) : In(name, Split(tm[i].k, ",")) }

\* "Toggle Theme": toggle_theme
GtkToggle ==
  /\ gpc = "idle" /\ events < MaxEvents
  /\ gpc' = "call"
  /\ CallStarts("gtk", "toggle", <<>>)
  /\ events' = events + 1
  /\ UNCHANGED << scanned, config, file, envVars, xfconf, clock, loopVars,
                  g_end, gres, cli, fn >>

\* An item of "Light Themes" or "Dark Themes": set_theme(t)
GtkSetTheme ==
  /\ gpc = "idle" /\ events < MaxEvents
  /\ \E name \in MenuThemes(theme_map) \cap ClickedThemes :
       /\ gpc' = "call"
       /\ CallStarts("gtk", "set_theme", name)
  /\ events' = events + 1
  /\ UNCHANGED << scanned, config, file, envVars, xfconf, clock, loopVars,
                  g_end, gres, cli, fn >>

\* set_dark_interval once zenity has returned, up to the assignment of
\* self.config['dark_start']. typed is what zenity printed, None when zenity
\* exited non-zero (the dialog was cancelled).
DialogReturns(typed) ==
  IF typed = None
  THEN \* subprocess.run raised CalledProcessError
       /\ gres' = "error"
       /\ UNCHANGED << config, gpc, g_end >>
  ELSE IF re_match_interval(typed)
  THEN /\ config' = Put(config, "dark_start", Split(typed, "-")[1])
       /\ g_end' = Split(typed, "-")[2]
       /\ gpc' = "w_end"
       /\ gres' = "running"
  ELSE \* print("Invalid time format. Use HH:MM-HH:MM")
       /\ gres' = "invalid"
       /\ UNCHANGED << config, gpc, g_end >>

\* "Set Dark Interval": set_dark_interval. The f-string of the entry text
\* reads both window keys before the dialog opens.
GtkSetDarkInterval ==
  /\ gpc = "idle" /\ events < MaxEvents
  /\ IF "dark_start" \notin DOMAIN config \/ "dark_end" \notin DOMAIN config
     THEN \* KeyError, caught by except Exception
          /\ gres' = "error"
          /\ UNCHANGED << config, gpc, g_end >>
     ELSE \E typed \in IntervalInputs \cup {None} : DialogReturns(typed)
  /\ events' = events + 1
  /\ UNCHANGED << scanned, file, envVars, xfconf, clock, loopVars, callVars,
                  cli, fn >>

\* set_dark_interval: self.config['dark_end'] = end; save_config; rebuild_menu
GtkWriteEnd ==
  /\ gpc = "w_end"
  /\ config' = Put(config, "dark_end", g_end)
  /\ file' = save_config(config')
  /\ gpc' = "idle" /\ g_end' = None /\ gres' = "saved"
  /\ UNCHANGED << scanned, envVars, xfconf, clock, loopVars, callVars, cli,
                  events, fn >>

\* Mutant: the callback loads the settings file again before it sets the
\* flag.
GtkToggleAutoSwitch_reloads ==
  /\ gpc = "idle" /\ events < MaxEvents
  /\ IF "auto_switch_enabled" \in DOMAIN config
     THEN /\ config' = Put(load_config(file), "auto_switch_enabled",
                           ~config["auto_switch_enabled"])
          /\ file' = save_config(config')
          /\ gres' = "saved"
     ELSE /\ gres' = "raised"
          /\ UNCHANGED << config, file >>
  /\ events' = events + 1
  /\ UNCHANGED << scanned, envVars, xfconf, clock, loopVars, callVars, gpc,
                  g_end, cli, fn >>

\* Mutant: save_config called before the assignment.
GtkToggleAutoSwitch_saved_first ==
  /\ gpc = "idle" /\ events < MaxEvents
  /\ IF "auto_switch_enabled" \in DOMAIN config
     THEN /\ config' = Put(config, "auto_switch_enabled",
                           ~config["auto_switch_enabled"])
          /\ file' = save_config(config)
          /\ gres' = "saved"
     ELSE /\ gres' = "raised"
          /\ UNCHANGED << config, file >>
  /\ events' = events + 1
  /\ UNCHANGED << scanned, envVars, xfconf, clock, loopVars, callVars, gpc,
                  g_end, cli, fn >>

\* "Auto-Switch [..]": toggle_auto_switch
GtkToggleAutoSwitch ==
  /\ gpc = "idle" /\ events < MaxEvents
  /\ IF "auto_switch_enabled" \in DOMAIN config
     THEN /\ config' = Put(config, "auto_switch_enabled",
                           ~config["auto_switch_enabled"])
          /\ file' = save_config(config')
          /\ gres' = "saved"
     ELSE \* KeyError leaves the callback
          /\ gres' = "raised"
          /\ UNCHANGED << config, file >>
  /\ events' = events + 1
  /\ UNCHANGED << scanned, envVars, xfconf, clock, loopVars, callVars, gpc,
                  g_end, cli, fn >>

\* ------------------------------------------------------------------------
\* hotkey.py: Ctrl+Alt+T calls toggle_theme on the listener's thread
\* ------------------------------------------------------------------------

HotkeyPress ==
  /\ tpc["hotkey"] = "idle" /\ events < MaxEvents
  /\ CallStarts("hotkey", "toggle", <<>>)
  /\ events' = events + 1
  /\ UNCHANGED << scanned, config, file, envVars, xfconf, clock, loopVars,
                  gtkVars, cli, fn >>

\* ------------------------------------------------------------------------
\* cli.py: one command, a process of its own
\* ------------------------------------------------------------------------

\* Mutant: a toggle that finds no counterpart ends with exit code 1.
CliToggle_no_counterpart_fails ==
  /\ events < MaxEvents
  /\ IF run_cmd_raises(xfconf)
     THEN /\ cli' = [cmd |-> "toggle", exit |-> 1, report |-> "error"]
          /\ UNCHANGED envVars
     ELSE LET current_theme == get_current_theme(xfconf, xsettings)
              counterpart == find_counterpart_theme(current_theme, cli_theme_map)
          IN  IF counterpart # None /\ counterpart # <<>>
              THEN /\ xsettings' = xfconf_query_set(xfconf, xsettings, counterpart)
                   /\ xfwm4' = IF HasXfwm4(THEME_DIRS, counterpart)
                               THEN xfconf_query_set(xfconf, xfwm4, counterpart)
                               ELSE xfwm4
                   /\ cli' = [cmd |-> "toggle", exit |-> 0,
                              report |-> get_current_mode(
                                  get_current_theme(xfconf, xsettings'))]
              ELSE /\ cli' = [cmd |-> "toggle", exit |-> 1,
                              report |-> "no_counterpart"]
                   /\ UNCHANGED envVars
  /\ events' = events + 1
  /\ UNCHANGED << scanned, config, file, xfconf, clock, loopVars, callVars,
                  gtkVars, fn >>

\* `toggle`: toggle_theme(); main() turns an exception into exit code 1.
CliToggle ==
  /\ events < MaxEvents
  /\ IF run_cmd_raises(xfconf)
     THEN /\ cli' = [cmd |-> "toggle", exit |-> 1, report |-> "error"]
          /\ UNCHANGED envVars
     ELSE LET current_theme == get_current_theme(xfconf, xsettings)
              counterpart == find_counterpart_theme(current_theme, cli_theme_map)
          IN  IF counterpart # None /\ counterpart # <<>>
              THEN /\ xsettings' = xfconf_query_set(xfconf, xsettings, counterpart)
                   /\ xfwm4' = IF HasXfwm4(THEME_DIRS, counterpart)
                               THEN xfconf_query_set(xfconf, xfwm4, counterpart)
                               ELSE xfwm4
                   /\ cli' = [cmd |-> "toggle", exit |-> 0,
                              report |-> get_current_mode(
                                  get_current_theme(xfconf, xsettings'))]
              ELSE /\ cli' = [cmd |-> "toggle", exit |-> 0,
                              report |-> "no_counterpart"]
                   /\ UNCHANGED envVars
  /\ events' = events + 1
  /\ UNCHANGED << scanned, config, file, xfconf, clock, loopVars, callVars,
                  gtkVars, fn >>

\* Mutant: `set` records the theme as last_theme in the settings file.
CliSet_saves_last_theme ==
  /\ events < MaxEvents
  /\ \E theme \in CliThemes :
       IF run_cmd_raises(xfconf)
       THEN /\ cli' = [cmd |-> "set", exit |-> 1, report |-> "error"]
            /\ UNCHANGED << envVars, file >>
       ELSE /\ xsettings' = xfconf_query_set(xfconf, xsettings, theme)
            /\ xfwm4' = IF HasXfwm4(THEME_DIRS, theme)
                        THEN xfconf_query_set(xfconf, xfwm4, theme)
                        ELSE xfwm4
            /\ file' = save_config(Put(load_config(file), "last_theme", theme))
            /\ cli' = [cmd |-> "set", exit |-> 0,
                       report |-> get_current_mode(
                           get_current_theme(xfconf, xsettings'))]
  /\ events' = events + 1
  /\ UNCHANGED << scanned, config, xfconf, clock, loopVars, callVars,
                  gtkVars, fn >>

\* `set <theme>`: set_theme_by_name(theme)
CliSet ==
  /\ events < MaxEvents
  /\ \E theme \in CliThemes :
       IF run_cmd_raises(xfconf)
       THEN /\ cli' = [cmd |-> "set", exit |-> 1, report |-> "error"]
            /\ UNCHANGED envVars
       ELSE /\ xsettings' = xfconf_query_set(xfconf, xsettings, theme)
            /\ xfwm4' = IF HasXfwm4(THEME_DIRS, theme)
                        THEN xfconf_query_set(xfconf, xfwm4, theme)
                        ELSE xfwm4
            /\ cli' = [cmd |-> "set", exit |-> 0,
                       report |-> get_current_mode(
                           get_current_theme(xfconf, xsettings'))]
  /\ events' = events + 1
  /\ UNCHANGED << scanned, config, file, xfconf, clock, loopVars, callVars,
                  gtkVars, fn >>

\* `auto on|off`: set_auto_switch(enabled)
CliAuto ==
  /\ events < MaxEvents
  /\ \E enabled \in BOOLEAN :
       file' = save_config(Put(load_config(file), "auto_switch_enabled", enabled))
  /\ cli' = [cmd |-> "auto", exit |-> 0, report |-> "done"]
  /\ events' = events + 1
  /\ UNCHANGED << scanned, config, envVars, xfconf, clock, loopVars, callVars,
                  gtkVars, fn >>

\* `interval <start> <end>`: set_dark_interval(start_time, end_time)
CliInterval ==
  /\ events < MaxEvents
  /\ \E a \in CliIntervals :
       file' = save_config(Put(Put(load_config(file), "dark_start", a[1]),
                               "dark_end", a[2]))
  /\ cli' = [cmd |-> "interval", exit |-> 0, report |-> "done"]
  /\ events' = events + 1
  /\ UNCHANGED << scanned, config, envVars, xfconf, clock, loopVars, callVars,
                  gtkVars, fn >>

\* ------------------------------------------------------------------------
\* The world: the wall clock and the xfconf-query command
\* ------------------------------------------------------------------------

\* The wall clock reaches the next reading.
Tick ==
  /\ events < MaxEvents
  /\ clock' = (clock % Len(ClockReadings)) + 1
  /\ events' = events + 1
  /\ UNCHANGED << scanned, config, file, envVars, xfconf, loopVars, callVars,
                  gtkVars, cli, fn >>

\* xfconf-query starts to fail, is removed, or works again.
XfconfChanges ==
  /\ events < MaxEvents
  /\ \E st \in XfconfStates \ {xfconf} : xfconf' = st
  /\ events' = events + 1
  /\ UNCHANGED << scanned, config, file, envVars, clock, loopVars, callVars,
                  gtkVars, cli, fn >>

\* The steps the threads of the tray process take on their own.
ThreadStep ==
  \/ LoopEval \/ LoopMode \/ LoopStart \/ LoopEnd \/ LoopWake
  \/ \E t \in Threads : ToggleGet(t) \/ SetMain(t) \/ SetXfwm(t) \/ ToggleIcon(t)
  \/ GtkWriteEnd

\* The events from outside: the user, the commands, the clock, the command
\* xfconf-query.
OutsideEvent ==
  \/ GtkToggle \/ GtkSetTheme \/ GtkSetDarkInterval \/ GtkToggleAutoSwitch
  \/ HotkeyPress
  \/ CliToggle \/ CliSet \/ CliAuto \/ CliInterval
  \/ Tick \/ XfconfChanges

Next == ThreadStep \/ OutsideEvent

Spec == Init /\ [][Next]_vars

\* A step of the auto-switch thread. The thread is a daemon thread of a
\* process that keeps running: it is scheduled again and again, time.sleep
\* returns, and the external command returns.
LoopThreadStep ==
  \/ LoopEval \/ LoopMode \/ LoopStart \/ LoopEnd \/ LoopWake
  \/ ToggleGet("loop") \/ SetMain("loop") \/ SetXfwm("loop")
  \/ ToggleIcon("loop")

\* The number of events from outside in the behaviours of SpecLive.
MaxLiveEvents == 1

NextLive ==
  \/ ThreadStep
  \/ events < MaxLiveEvents /\ GtkToggle
  \/ events < MaxLiveEvents /\ GtkSetTheme
  \/ events < MaxLiveEvents /\ GtkSetDarkInterval
  \/ events < MaxLiveEvents /\ GtkToggleAutoSwitch
  \/ events < MaxLiveEvents /\ HotkeyPress
  \/ events < MaxLiveEvents /\ CliToggle
  \/ events < MaxLiveEvents /\ CliSet
  \/ events < MaxLiveEvents /\ CliAuto
  \/ events < MaxLiveEvents /\ CliInterval
  \/ events < MaxLiveEvents /\ Tick
  \/ events < MaxLiveEvents /\ XfconfChanges

SpecLive == Init /\ [][NextLive]_vars /\ WF_vars(LoopThreadStep)

\* ------------------------------------------------------------------------
\* SpecQuiet: the tray process left alone: no user action, no command, a
\* clock that stays within one side of the window
\* ------------------------------------------------------------------------

\* The settings file at the start of the tray process: those of
\* InitialFiles, and one with the flag set and a window within the day.
QuietFiles ==
  InitialFiles \cup
    { save_config([DEFAULT_CONFIG EXCEPT !.auto_switch_enabled = TRUE,
                                         !.dark_start = T_0900,
                                         !.dark_end = T_1700]) }

\* SwitchipyApp.__init__ has run, under any of the themes as the active
\* one and at any of the clock readings.
InitQuiet ==
  /\ scanned = generate_theme_map(THEME_DIRS)
  /\ file \in QuietFiles
  /\ config = load_config(file)
  /\ "dark_start" \in DOMAIN config /\ "dark_end" \in DOMAIN config
  /\ xsettings \in ThemeNames
  /\ xfwm4 = N_Xfce
  /\ xfconf = "ok"
  /\ clock \in 1..Len(ClockReadings)
  /\ lpc = "eval"
  /\ l_mode = "none" /\ l_now = None /\ l_start = None /\ l_end = None
  /\ l_dark = FALSE /\ l_decided = FALSE /\ l_err = FALSE
  /\ l_toggles = 0 /\ l_delay = 0
  /\ tpc = [t \in Threads |-> "idle"]
  /\ tcall = [t \in Threads |-> "none"]
  /\ tcur = [t \in Threads |-> <<>>]
  /\ tcp = [t \in Threads |-> <<>>]
  /\ twrites = [t \in Threads |-> 0]
  /\ tres = [t \in Threads |-> "none"]
  /\ gpc = "idle" /\ g_end = None /\ gres = "none"
  /\ cli = NoCli
  /\ events = 0
  /\ fn = NoFn

SpecQuiet == InitQuiet /\ [][LoopThreadStep]_vars /\ WF_vars(LoopThreadStep)

\* ------------------------------------------------------------------------
\* SpecDisk: the tray process with a settings file that cannot always be
\* written
\* ------------------------------------------------------------------------

\* CONFIG_PATH after a save_config whose try block raised: open() raised
\* and the file is as it was, or open() truncated the file and json.dump
\* broke off, which leaves a text json.load rejects.
save_config_failed(f) == { f, [kind |-> "broken", obj |-> EmptyObj] }

\* toggle_auto_switch when save_config cannot write: the except clause of
\* save_config prints, toggle_auto_switch goes on to rebuild_menu.
GtkToggleAutoSwitchUnsaved ==
  /\ gpc = "idle" /\ events < MaxEvents
  /\ "auto_switch_enabled" \in DOMAIN config
  /\ config' = Put(config, "auto_switch_enabled", ~config["auto_switch_enabled"])
  /\ file' \in save_config_failed(file)
  /\ gres' = "unsaved"
  /\ events' = events + 1
  /\ UNCHANGED << scanned, envVars, xfconf, clock, loopVars, callVars, gpc,
                  g_end, cli, fn >>

\* set_dark_interval from self.config['dark_end'] = end on, when save_config
\* cannot write.
GtkWriteEndUnsaved ==
  /\ gpc = "w_end"
  /\ config' = Put(config, "dark_end", g_end)
  /\ file' \in save_config_failed(file)
  /\ gpc' = "idle" /\ g_end' = None /\ gres' = "unsaved"
  /\ UNCHANGED << scanned, envVars, xfconf, clock, loopVars, callVars, cli,
                  events, fn >>

\* The tray process alone: its threads, the two settings callbacks with
\* both outcomes of the write, and the clock.
NextDisk ==
  \/ LoopThreadStep
  \/ GtkSetDarkInterval \/ GtkWriteEnd \/ GtkWriteEndUnsaved
  \/ GtkToggleAutoSwitch \/ GtkToggleAutoSwitchUnsaved
  \/ Tick

SpecDisk == Init /\ [][NextDisk]_vars

\* ------------------------------------------------------------------------
\* SpecCli: the commands of cli.py, one process each, run one after another
\* ------------------------------------------------------------------------

\* `list`: list_themes(). It scans the directories and prints; it calls
\* neither xfconf-query nor load_config.
CliList ==
  /\ events < MaxEvents
  /\ cli' = [cmd |-> "list", exit |-> 0,
             report |-> IF Len(cli_theme_map) = 0 THEN "no_pairs" ELSE "listed"]
  /\ events' = events + 1
  /\ UNCHANGED << scanned, config, file, envVars, xfconf, clock, loopVars,
                  callVars, gtkVars, fn >>

\* `current`: show_current(); main() turns an exception into exit code 1.
CliCurrent ==
  /\ events < MaxEvents
  /\ cli' = IF run_cmd_raises(xfconf)
            THEN [cmd |-> "current", exit |-> 1, report |-> "error"]
            ELSE [cmd |-> "current", exit |-> 0,
                  report |-> get_current_mode(get_current_theme(xfconf, xsettings))]
  /\ events' = events + 1
  /\ UNCHANGED << scanned, config, file, envVars, xfconf, clock, loopVars,
                  callVars, gtkVars, fn >>

\* `config`: show_config() prints the items of load_config().
CliConfig ==
  /\ events < MaxEvents
  /\ cli' = [cmd |-> "config", exit |-> 0, report |-> "shown"]
  /\ events' = events + 1
  /\ UNCHANGED << scanned, config, file, envVars, xfconf, clock, loopVars,
                  callVars, gtkVars, fn >>

\* `time`: is_dark_time() of cli.py. config['dark_start'] and
\* config['dark_end'] raise KeyError when the object of the file has no such
\* key.
CliTime ==
  /\ events < MaxEvents
  /\ LET loaded == load_config(file)
     IN  cli' = IF "dark_start" \in DOMAIN loaded /\ "dark_end" \in DOMAIN loaded
                THEN [cmd |-> "time", exit |-> 0,
                      report |-> IF is_dark_time(loaded["dark_start"],
                                                 loaded["dark_end"],
                                                 strftime(ClockReadings[clock]))
                                 THEN "yes" ELSE "no"]
                ELSE [cmd |-> "time", exit |-> 1, report |-> "error"]
  /\ events' = events + 1
  /\ UNCHANGED << scanned, config, file, envVars, xfconf, clock, loopVars,
                  callVars, gtkVars, fn >>

\* The settings file after the user wrote it by hand: an empty object, or
\* the flag alone.
EditedFiles ==
  { save_config(EmptyObj), save_config([auto_switch_enabled |-> TRUE]) }

\* The user replaces the settings file.
FileEdited ==
  /\ events < MaxEvents
  /\ file' \in EditedFiles \ {file}
  /\ events' = events + 1
  /\ UNCHANGED << scanned, config, envVars, xfconf, clock, loopVars, callVars,
                  gtkVars, cli, fn >>

NextCli ==
  \/ CliList \/ CliCurrent \/ CliToggle \/ CliSet
  \/ CliConfig \/ CliAuto \/ CliInterval \/ CliTime
  \/ FileEdited \/ Tick \/ XfconfChanges

SpecCli == Init /\ [][NextCli]_vars

\* ------------------------------------------------------------------------
\* SpecFn: the pure functions applied to inputs from bounded sets
\* ------------------------------------------------------------------------

FnHours == {0, 4, 5, 9, 10, 12, 17, 19, 23}
FnMinutes == {0, 59}

\* The well-formed HH:MM strings the window evaluator is applied to.
FnTimes == { strftime([h |-> h, m |-> m]) : h \in FnHours, m \in FnMinutes }

\* The pieces theme names are put together from: each of "dark", "black",
\* "noir" in two pieces and in both cases, and pieces that belong to none.
Fragments ==
  { << "d", "a" >>, << "r", "k" >>, << "D", "A" >>, << "R", "k" >>,
    << "b", "l", "a" >>, << "c", "k" >>, << "B", "l", "A" >>, << "C", "K" >>,
    << "n", "o" >>, << "i", "r" >>, << "N", "O" >>, << "i", "R" >>,
    << "-" >>, << "x" >> }

\* The largest number of pieces in a name.
MaxFrags == 3

RECURSIVE Flatten(_)
Flatten(pieces) ==
  IF pieces = <<>> THEN <<>> ELSE pieces[1] \o Flatten(Tail(pieces))

FnNames == { Flatten(p) : p \in UNION { [1..n -> Fragments] : n \in 0..MaxFrags } }

InitFn ==
  /\ Init
  /\ file.kind = "absent"
  /\ xsettings = N_ArcLight

FnFrame ==
  UNCHANGED << scanned, config, file, envVars, xfconf, clock, loopVars,
               callVars, gtkVars, cli, events >>

\* is_dark_time on a window and a time.
ApplyIsDarkTime ==
  /\ fn = NoFn
  /\ \E dark_start \in FnTimes, dark_end \in FnTimes, now \in FnTimes :
       fn' = [op |-> "is_dark_time", dark_start |-> dark_start,
              dark_end |-> dark_end, now |-> now,
              result |-> is_dark_time(dark_start, dark_end, now)]
  /\ FnFrame

\* get_current_mode(theme_name) on a name.
ApplyGetCurrentMode ==
  /\ fn = NoFn
  /\ \E name \in FnNames :
       fn' = [op |-> "get_current_mode", name |-> name,
              result |-> get_current_mode(name)]
  /\ FnFrame

NextFn == ApplyIsDarkTime \/ ApplyGetCurrentMode

SpecFn == InitFn /\ [][NextFn]_vars

\* ------------------------------------------------------------------------
\* SpecThemes: the theme functions applied to names and directories
\* ------------------------------------------------------------------------

\* The mode suffixes names are built with, in lower, capitalised and upper
\* case.
X_dark == << "-", "d", "a", "r", "k" >>
X_Dark == << "-", "D", "a", "r", "k" >>
X_light == << "-", "l", "i", "g", "h", "t" >>
X_black == << "-", "b", "l", "a", "c", "k" >>
X_NOIR == << "-", "N", "O", "I", "R" >>

ModeSuffixes == {X_dark, X_Dark, X_light, X_black, X_NOIR}

\* What the suffixes are put behind: names that hold no mode suffix, one of
\* them with a dark word inside, and the empty string.
N_Darkwood == << "D", "a", "r", "k", "w", "o", "o", "d" >>

Stems == {N_Arc, N_Xfce, N_Darkwood, <<>>}

\* What follows the suffixes of a name.
NameTails == { <<>>, << "e", "r" >> }

\* The largest number of mode suffixes in a name.
MaxSuffixes == 2

SuffixLists == UNION { [1..n -> ModeSuffixes] : n \in 0..MaxSuffixes }

\* get_current_mode on two names that are one stem with two different
\* suffixes, no suffix being one of them.
ApplyClassifyPair ==
  /\ fn = NoFn
  /\ \E stem \in Stems, sa \in ModeSuffixes \cup {<<>>},
        sb \in ModeSuffixes \cup {<<>>} :
       /\ sa # sb
       /\ fn' = [op |-> "classify_pair", stem |-> stem, sa |-> sa, sb |-> sb,
                 mode_a |-> get_current_mode(stem \o sa),
                 mode_b |-> get_current_mode(stem \o sb)]
  /\ FnFrame

\* The base name generate_theme_map computes for a name: a stem, mode
\* suffixes and a tail.
ApplyBaseName ==
  /\ fn = NoFn
  /\ \E stem \in Stems, suffixes \in SuffixLists, tail \in NameTails :
       fn' = [op |-> "base_name", stem |-> stem, suffixes |-> suffixes,
              tail |-> tail,
              result |-> base_name(stem \o Flatten(suffixes) \o tail)]
  /\ FnFrame

\* The entries the scanned directories are filled from: the theme directories
\* of a family with two light themes and a dark one, the one of a family with
\* a dark theme only, and a plain file.
N_MistNoir == << "M", "i", "s", "t", "-", "n", "o", "i", "r" >>

EntryPool ==
  { Entry(N_Arc, FALSE), Entry(N_ArcDark, FALSE), Entry(N_ArcLight, FALSE),
    Entry(N_MistNoir, FALSE),
    [name |-> N_README, is_dir |-> FALSE, xfwm4 |-> FALSE] }

\* The largest number of entries in a directory.
MaxEntries == 2

\* What iterdir yields for a directory: its entries, each name once, in some
\* order.
DirListings ==
  { l \in UNION { [1..n -> EntryPool] : n \in 0..MaxEntries } :
      \A i \in 1..Len(l), j \in 1..Len(l) : i # j => l[i].name # l[j].name }

\* A directory of THEME_DIRS: it does not exist, or it has a listing.
ScanDir ==
  { [exists |-> FALSE, entries |-> <<>>] } \cup
  { [exists |-> TRUE, entries |-> l] : l \in DirListings }

\* The same entries as a later iterdir yields them.
Reversed(list) == [i \in 1..Len(list) |-> list[Len(list) + 1 - i]]
Rotated(list) ==
  IF list = <<>> THEN <<>> ELSE Append(Tail(list), list[1])
Relisted(d, how) ==
  [d EXCEPT !.entries = IF how = "reversed" THEN Reversed(@) ELSE Rotated(@)]

\* generate_theme_map() on the two directories of THEME_DIRS.
ApplyGenerateThemeMap ==
  /\ fn = NoFn
  /\ \E home \in ScanDir, usr \in ScanDir :
       fn' = [op |-> "generate_theme_map", dirs |-> << home, usr >>,
              groups |-> theme_groups(ScannedNames(<< home, usr >>)),
              result |-> generate_theme_map(<< home, usr >>)]
  /\ FnFrame

\* generate_theme_map() twice on directories that did not change, iterdir
\* yielding the entries in another order the second time.
ApplyRescan ==
  /\ fn = NoFn
  /\ \E home \in ScanDir, usr \in ScanDir, how \in {"reversed", "rotated"} :
       fn' = [op |-> "rescan", dirs |-> << home, usr >>,
              again |-> << Relisted(home, how), Relisted(usr, how) >>,
              first |-> generate_theme_map(<< home, usr >>),
              second |-> generate_theme_map(
                           << Relisted(home, how), Relisted(usr, how) >>)]
  /\ FnFrame

\* /usr/share/themes as distributions fill it: absent, or with themes of the
\* family Arc.
UsrDirs ==
  { [exists |-> FALSE, entries |-> <<>>],
    [exists |-> TRUE, entries |-> << Entry(N_ArcBlack, FALSE), Entry(N_Arc, TRUE) >>],
    [exists |-> TRUE, entries |-> << Entry(N_ArcLight, FALSE) >>] }

\* toggle_theme four times in a row with the table of one
\* generate_theme_map(), each time on the theme the toggle before applied:
\* counterpart = find_counterpart_theme(current, self.theme_map). A toggle
\* without a counterpart applies nothing, and neither do those after it.
ApplyToggles ==
  /\ fn = NoFn
  /\ \E home \in ScanDir, usr \in UsrDirs :
       \E s \in 1..Len(ScannedNames(<< home, usr >>)) :
         LET tm == generate_theme_map(<< home, usr >>)
             start == ScannedNames(<< home, usr >>)[s]
             toggle(current) ==
               IF current = None THEN None
               ELSE find_counterpart_theme(current, tm)
         IN  fn' = [op |-> "toggles", dirs |-> << home, usr >>, start |-> start,
                    first |-> toggle(start),
                    second |-> toggle(toggle(start)),
                    third |-> toggle(toggle(toggle(start))),
                    fourth |-> toggle(toggle(toggle(toggle(start))))]
  /\ FnFrame

NextThemes ==
  \/ ApplyClassifyPair \/ ApplyBaseName \/ ApplyGenerateThemeMap \/ ApplyRescan
  \/ ApplyToggles

SpecThemes == InitFn /\ [][NextThemes]_vars

\* ------------------------------------------------------------------------
\* SpecSettings: save_config and load_config on settings and files
\* ------------------------------------------------------------------------

\* The characters the values of last_theme are made of: letters, the letters
\* of the escapes, and the characters the encoder escapes.
ValueChars == {"A", "n", "u", "\"", "\\", "\n", "é"}

\* The largest length of such a value.
MaxValueLen == 2

SettingValues == UNION { [1..n -> ValueChars] : n \in 0..MaxValueLen }

\* The settings save_config is given.
SettingsRecords ==
  { [auto_switch_enabled |-> a, dark_start |-> start, dark_end |-> end,
     last_theme |-> theme] :
      a \in BOOLEAN, start \in {T_1900, T_9, << "\"" >>},
      end \in {T_0500, <<>>}, theme \in SettingValues \cup {N_ArcDark} }

\* The objects the files load_config reads were written from.
StoredObjects ==
  { DEFAULT_CONFIG, EmptyObj, [dark_start |-> T_1900, dark_end |-> T_0500],
    [DEFAULT_CONFIG EXCEPT !.auto_switch_enabled = TRUE,
                           !.last_theme = << "A", "\"", "é" >>] }

\* save_config(config), then load_config().
ApplySaveLoad ==
  /\ fn = NoFn
  /\ \E cfg \in SettingsRecords :
       fn' = [op |-> "save_load", saved |-> cfg, path |-> save_config_to(cfg),
              loaded |-> load_config_from(save_config_to(cfg))]
  /\ FnFrame

\* load_config() with CONFIG_PATH absent, unreadable, holding the text of an
\* object, or holding the first n characters of such a text only.
ApplyLoadConfig ==
  /\ fn = NoFn
  /\ \/ \E kind \in {"absent", "unreadable"} :
          fn' = [op |-> "load_config", path |-> [kind |-> kind, text |-> <<>>],
                 stored |-> None, whole |-> FALSE,
                 result |-> load_config_from([kind |-> kind, text |-> <<>>])]
     \/ \E obj \in StoredObjects :
          fn' = [op |-> "load_config", path |-> save_config_to(obj),
                 stored |-> obj, whole |-> TRUE,
                 result |-> load_config_from(save_config_to(obj))]
     \/ \E obj \in StoredObjects :
          \E n \in 0..(Len(json_dump(obj)) - 1) :
            LET path == [kind |-> "text", text |-> SubSeq(json_dump(obj), 1, n)]
            IN  fn' = [op |-> "load_config", path |-> path, stored |-> obj,
                       whole |-> FALSE, result |-> load_config_from(path)]
  /\ FnFrame

NextSettings == ApplySaveLoad \/ ApplyLoadConfig

SpecSettings == InitFn /\ [][NextSettings]_vars

\* ------------------------------------------------------------------------
\* The properties
\* ------------------------------------------------------------------------

\* The value of a decimal digit character.
DigitVal(c) == Ord(c) - 48

\* The minute of the day a well-formed HH:MM string names.
MinuteOfDay(t) ==
  (DigitVal(t[1]) * 10 + DigitVal(t[2])) * 60 + DigitVal(t[4]) * 10 + DigitVal(t[5])

\* The window (start, end) holds the time now, in minutes of the day: half
\* open when start is before end, wrapping past midnight otherwise.
InWindow(start, end, now) ==
  IF MinuteOfDay(start) < MinuteOfDay(end)
  THEN MinuteOfDay(start) <= MinuteOfDay(now) /\ MinuteOfDay(now) < MinuteOfDay(end)
  ELSE MinuteOfDay(now) >= MinuteOfDay(start) \/ MinuteOfDay(now) < MinuteOfDay(end)

T_0459 == << "0", "4", ":", "5", "9" >>
T_1200 == << "1", "2", ":", "0", "0" >>

\* C4: for well-formed zero-padded start, end and now, is_dark_time returns
\* start <= now < end when start < end and (now >= start or now < end)
\* otherwise, the times compared as times of the day; a window with
\* start = end is dark at every time, and 19:00-05:00 is dark at 19:00 and
\* 04:59 but not at 05:00 or 12:00.
C4_IsDarkTime ==
  fn.op = "is_dark_time" =>
    /\ fn.result = InWindow(fn.dark_start, fn.dark_end, fn.now)
    /\ fn.dark_start = fn.dark_end => fn.result
    /\ (fn.dark_start = T_1900 /\ fn.dark_end = T_0500) =>
         /\ fn.now \in {T_1900, T_0459} => fn.result
         /\ fn.now \in {T_0500, T_1200} => ~fn.result

\* C4 witness: the window 19:00-05:00 evaluated at its exclusive end.
C4_Witness ==
  /\ fn.op = "is_dark_time"
  /\ fn.dark_start = T_1900 /\ fn.dark_end = T_0500 /\ fn.now = T_0500
  /\ ~fn.result

\* s with every character in lower case.
LowerStr(s) == [i \in 1..Len(s) |-> Lower(s[i])]

\* w is a substring of s.
Contains(s, w) ==
  \E i \in 1..(Len(s) - Len(w) + 1) : SubSeq(s, i, i + Len(w) - 1) = w

\* C10: get_current_mode(name) is "dark" exactly when name holds "dark",
\* "black" or "noir" as a substring at any position, whatever the case of its
\* letters, and "light" for every other string, the empty string included.
C10_Classify ==
  fn.op = "get_current_mode" =>
    fn.result =
      IF \/ Contains(LowerStr(fn.name), W_dark)
         \/ Contains(LowerStr(fn.name), W_black)
         \/ Contains(LowerStr(fn.name), W_noir)
      THEN "dark" ELSE "light"

\* C10 witness: "xNOiR", the word in mixed case and not at the start, is dark.
C10_Witness ==
  /\ fn.op = "get_current_mode"
  /\ fn.name = << "x", "N", "O", "i", "R" >>
  /\ fn.result = "dark"

\* The elements of a sequence.
Elems(list) == { list[i] : i \in 1..Len(list) }

\* The installed themes.
Installed == Elems(ScannedNames(THEME_DIRS))

\* The installed themes with the base name of name.
Family(name) ==
  LET base == base_name(name)
  IN  { n \in Installed : base_name(n) = base }

\* The members of the family of name that have the other mode.
OppositeList(name) ==
  LET mode == get_current_mode(name)
  IN  { n \in Family(name) : get_current_mode(n) # mode }

\* The first of a set of names in sorted order.
FirstSorted(names) == CHOOSE n \in names : \A m \in names : StrLe(n, m)

\* The first member in sorted order of the opposite-mode list of the family
\* of name; None when name is a member of no entry of the pairing table (it
\* is not installed, or its family has themes of one mode only).
Counterpart(name) ==
  LET opposite == OppositeList(name)
  IN  IF name \in Installed /\ opposite # {} THEN FirstSorted(opposite)
      ELSE None

\* name is a member of some entry of the pairing table.
IsPaired(name) == Counterpart(name) # None

Opposite(mode) == IF mode = "dark" THEN "light" ELSE "dark"

\* C1: an evaluation of the loop that reached the comparison (auto-switch
\* enabled, mode and window read) has called toggle_theme exactly once when
\* the verdict and the mode it read differ (dark verdict with light mode, or
\* not-dark verdict with dark mode) and not at all when they agree, up to the
\* end of the evaluation.
C1_ToggleOncePerEvaluation ==
  l_decided =>
    /\ l_mode \in {"light", "dark"}
    /\ l_toggles = IF l_dark = (l_mode = "dark") THEN 0 ELSE 1
    /\ (lpc = "toggle") => l_toggles = 1

\* C1 witness: an evaluation is over that found the verdict not dark and the
\* mode dark, and called toggle_theme once.
C1_Witness ==
  /\ lpc = "sleep" /\ l_decided
  /\ ~l_dark /\ l_mode = "dark"
  /\ l_toggles = 1

C3_NoCounterpart ==
  [][/\ \A t \in Threads :
          (tpc[t] = "get" /\ tpc'[t] # "get" /\ ~run_cmd_raises(xfconf)
             /\ ~IsPaired(get_current_theme(xfconf, xsettings))) =>
            /\ tres'[t] = "no_counterpart"
            /\ tpc'[t] = "idle"
            /\ twrites'[t] = 0
            /\ UNCHANGED << xsettings, xfwm4, config, file >>
     /\ (events' # events /\ cli'.cmd = "toggle" /\ CliToggle
           /\ ~run_cmd_raises(xfconf)
           /\ ~IsPaired(get_current_theme(xfconf, xsettings))) =>
          /\ cli'.report = "no_counterpart"
          /\ UNCHANGED << xsettings, xfwm4, config, file >>]_vars

\* C3 witness: the hotkey's toggle found Xfce, which has no dark variant,
\* active and reported that it has no counterpart.
C3_Witness ==
  /\ tres["hotkey"] = "no_counterpart"
  /\ xsettings = N_Xfce /\ xfconf = "ok"

\* t is a 24-hour HH:MM time.
IsTime(t) ==
  /\ Len(t) = 5
  /\ \A i \in {1, 2, 4, 5} : IsDigit(t[i])
  /\ t[3] = ":"
  /\ DigitVal(t[1]) * 10 + DigitVal(t[2]) <= 23
  /\ DigitVal(t[4]) * 10 + DigitVal(t[5]) <= 59

\* typed is two 24-hour HH:MM times with "-" between them.
WellFormedInterval(typed) ==
  /\ Len(Split(typed, "-")) = 2
  /\ IsTime(Split(typed, "-")[1])
  /\ IsTime(Split(typed, "-")[2])

\* C5: an interval typed into the set-interval dialog that is not two
\* 24-hour HH:MM times is rejected: the settings and the file stay as they
\* are and the format message is printed.
C5_MalformedRejected ==
  [][\A typed \in IntervalInputs :
       (/\ GtkSetDarkInterval
        /\ "dark_start" \in DOMAIN config /\ "dark_end" \in DOMAIN config
        /\ DialogReturns(typed)
        /\ ~WellFormedInterval(typed)) =>
         /\ UNCHANGED << config, file >>
         /\ gres' = "invalid"]_vars

\* The window of a settings object is made of 24-hour HH:MM times.
WindowWellFormed(obj) ==
  /\ "dark_start" \in DOMAIN obj => IsTime(obj["dark_start"])
  /\ "dark_end" \in DOMAIN obj => IsTime(obj["dark_end"])

\* C6: whatever settings operations have run, dark_start and dark_end are
\* 24-hour HH:MM times, in the settings of the tray process and in the
\* settings file the commands load and save.
C6_WindowWellFormed ==
  /\ WindowWellFormed(config)
  /\ file.kind = "json" => WindowWellFormed(file.obj)

\* The windows the settings of the tray process are given as a whole: the
\* default one and each interval the dialog accepts.
CompleteWindows ==
  { << T_1900, T_0500 >> } \cup
  { << Split(typed, "-")[1], Split(typed, "-")[2] >> :
      typed \in { i \in IntervalInputs : re_match_interval(i) } }

\* C7: the window an evaluation of the loop decides on is a complete pair,
\* never the start of one interval with the end of another.
C7_NoTornRead ==
  l_decided => << l_start, l_end >> \in CompleteWindows

\* C9: no call of toggle_theme or set_theme, in the tray process or in a
\* command, ends with an exception when xfconf-query is missing or exits
\* non-zero.
C9_NoErrorPropagates ==
  /\ \A t \in Threads : tres[t] # "raised"
  /\ cli.cmd \in {"toggle", "set"} => cli.exit = 0

LoopPcs == {"eval", "mode", "start", "end", "toggle", "sleep"}

\* C8: the auto-switch thread is never ended by a failure; every sleep it is
\* in, after an evaluation that completed or that raised, is the 60-second
\* one; the sleep is followed by the start of an evaluation and by nothing
\* else, an evaluation starts out of that sleep only, and the thread goes on
\* sleeping and evaluating in turn for ever.
C8_LoopGoesOn ==
  /\ [](lpc \in LoopPcs /\ (lpc = "sleep" => l_delay = 60))
  /\ [][/\ (lpc = "sleep" /\ lpc' # "sleep") => lpc' = "eval"
        /\ (lpc # "eval" /\ lpc' = "eval") => (lpc = "sleep" /\ l_delay = 60)]_vars
  /\ []<>(lpc = "sleep") /\ []<>(lpc = "eval")

\* C8 witness: toggle_theme raised inside an evaluation and the thread is in
\* the 60-second sleep of the except clause.
C8_Witness ==
  /\ lpc = "sleep" /\ l_err /\ l_delay = 60
  /\ tres["loop"] = "raised"

\* s holds "dark", "black" or "noir" in some case.
HoldsDarkWord(s) ==
  \/ Contains(LowerStr(s), W_dark)
  \/ Contains(LowerStr(s), W_black)
  \/ Contains(LowerStr(s), W_noir)

\* The suffixes that name the dark mode.
DarkSuffixes == {X_dark, X_Dark, X_black, X_NOIR}

\* C11 (as stated): two names that differ only by a recognized mode suffix
\* (or by having none) are given opposite modes.
C11_PairOpposite ==
  fn.op = "classify_pair" => fn.mode_a # fn.mode_b

\* C11 (amended): for a stem that holds none of the dark words, the stem with
\* -dark, -black or -noir (in any case) is dark and the stem alone or with
\* -light is light, so two names of the stem get opposite modes exactly when
\* one of the two suffixes is a dark one; when the stem itself holds a dark
\* word both names are dark.
C11_PairBySuffix ==
  fn.op = "classify_pair" =>
    IF HoldsDarkWord(fn.stem)
    THEN fn.mode_a = "dark" /\ fn.mode_b = "dark"
    ELSE /\ fn.mode_a = (IF fn.sa \in DarkSuffixes THEN "dark" ELSE "light")
         /\ fn.mode_b = (IF fn.sb \in DarkSuffixes THEN "dark" ELSE "light")
         /\ (fn.mode_a # fn.mode_b) <=>
              ((fn.sa \in DarkSuffixes) # (fn.sb \in DarkSuffixes))

\* C11 witness: Arc-Dark and Arc-light are classified dark and light.
C11_Witness ==
  /\ fn.op = "classify_pair"
  /\ fn.stem = N_Arc /\ fn.sa = X_Dark /\ fn.sb = X_light
  /\ fn.mode_a = "dark" /\ fn.mode_b = "light"

\* The names of the theme directories a scan of dirs finds.
DirNames(dirs) ==
  UNION { { dirs[i].entries[j].name :
              j \in { j \in 1..Len(dirs[i].entries) : dirs[i].entries[j].is_dir } } :
          i \in { i \in 1..Len(dirs) : dirs[i].exists } }

\* The stem of each theme the directories are filled from: what its family
\* is called.
StemOf(name) ==
  IF name \in {N_Arc, N_ArcDark, N_ArcLight, N_ArcBlack} THEN N_Arc
  ELSE IF name = N_MistNoir THEN << "M", "i", "s", "t" >>
  ELSE name

\* The family of name among names.
FamilyIn(names, name) == { n \in names : StemOf(n) = StemOf(name) }

\* A family with at least one light and at least one dark member.
HasBothModes(family) ==
  /\ \E n \in family : get_current_mode(n) = "light"
  /\ \E n \in family : get_current_mode(n) = "dark"

\* The members of a canonical key.
Members(key) == Elems(Split(key, ","))

\* The names the keys and values of a table list.
Listed(tm) ==
  UNION { Members(tm[i].k) \cup Members(tm[i].v) : i \in 1..Len(tm) }

\* C12: in the table generate_theme_map builds from any scanned names, the
\* themes of a family are listed (in a key and in a value) if and only if the
\* family has at least one light and at least one dark member; a family of
\* one mode only contributes no key and no value, and nothing but scanned
\* names is listed.
C12_FamilyContributes ==
  fn.op = "generate_theme_map" =>
    LET names == DirNames(fn.dirs)
        listed == Listed(fn.result)
    IN  /\ listed \subseteq names
        /\ \A n \in names : n \in listed <=> HasBothModes(FamilyIn(names, n))
        /\ \A i \in 1..Len(fn.result) :
             \E n \in names :
               /\ Members(fn.result[i].k) \cup Members(fn.result[i].v)
                    = FamilyIn(names, n)
               /\ HasBothModes(FamilyIn(names, n))

\* C12 witness: Arc and Arc-Dark make two entries, Mist-noir alone makes
\* none.
C12_Witness ==
  /\ fn.op = "generate_theme_map"
  /\ DirNames(fn.dirs) = {N_Arc, N_ArcDark, N_MistNoir}
  /\ Len(fn.result) = 2
  /\ N_MistNoir \notin Listed(fn.result)

\* tm[k], None when k is no key of tm.
DictGet(tm, k) ==
  IF DictIndex(tm, k) > 0 THEN tm[DictIndex(tm, k)].v ELSE None

\* The members of the list of tm that a is in, and of the list paired with
\* it; empty when no key lists a.
OwnList(tm, a) ==
  UNION { Members(tm[i].k) : i \in { i \in 1..Len(tm) : a \in Members(tm[i].k) } }
PairedList(tm, a) ==
  UNION { Members(tm[i].v) : i \in { i \in 1..Len(tm) : a \in Members(tm[i].k) } }

\* Every key k with value v has the reverse entry from v to k.
ReverseEntries(tm) ==
  \A i \in 1..Len(tm) : DictGet(tm, tm[i].v) = tm[i].k

\* C13 (as stated): the table has the reverse of every entry, and for all
\* scanned names a and b, b is the counterpart find_counterpart_theme gives
\* for a if and only if a is the one it gives for b.
C13_CounterpartSymmetric ==
  fn.op = "generate_theme_map" =>
    /\ ReverseEntries(fn.result)
    /\ \A a \in DirNames(fn.dirs), b \in DirNames(fn.dirs) :
         (find_counterpart_theme(a, fn.result) = b)
           <=> (find_counterpart_theme(b, fn.result) = a)

\* C13 (amended): the table has the reverse of every entry; being a member
\* of the list paired with the other's list is a symmetric relation; the
\* counterpart of a is the first member in sorted order of the list paired
\* with the list of a, and a is in turn the counterpart of that theme when a
\* is the first member in sorted order of its own list.
C13_ReverseEntries ==
  fn.op = "generate_theme_map" =>
    LET tm == fn.result
        names == DirNames(fn.dirs)
    IN  /\ ReverseEntries(tm)
        /\ \A a \in names, b \in names :
             (b \in PairedList(tm, a)) <=> (a \in PairedList(tm, b))
        /\ \A a \in names :
             LET b == find_counterpart_theme(a, tm)
             IN  IF PairedList(tm, a) = {} THEN b = None
                 ELSE /\ b = FirstSorted(PairedList(tm, a))
                      /\ a = FirstSorted(OwnList(tm, a)) =>
                           find_counterpart_theme(b, tm) = a

\* C13 witness: with Arc, Arc-light and Arc-Dark scanned the counterpart of
\* Arc-light is Arc-Dark and the counterpart of Arc-Dark is Arc.
C13_Witness ==
  /\ fn.op = "generate_theme_map"
  /\ DirNames(fn.dirs) = {N_Arc, N_ArcLight, N_ArcDark}
  /\ find_counterpart_theme(N_ArcLight, fn.result) = N_ArcDark
  /\ find_counterpart_theme(N_ArcDark, fn.result) = N_Arc

\* The items of a dict; two dicts are equal when they have the same items.
DictItems(tm) == { << tm[i].k, tm[i].v >> : i \in 1..Len(tm) }

\* C14: two scans of directories that did not change return equal tables
\* (the same keys with the same values), also when iterdir yields the
\* entries of the directories in another order the second time.
C14_RescanSame ==
  fn.op = "rescan" =>
    /\ DictItems(fn.first) = DictItems(fn.second)
    /\ Len(fn.first) = Len(fn.second)

\* C14 witness: the second scan met Arc before Arc-light and Arc-Dark last,
\* the first one the other way round, and both have the key "Arc,Arc-light".
C14_Witness ==
  /\ fn.op = "rescan"
  /\ ScannedNames(fn.dirs) = << N_ArcLight, N_Arc, N_ArcDark >>
  /\ ScannedNames(fn.again) = << N_Arc, N_ArcLight, N_ArcDark >>
  /\ DictGet(fn.second, N_ArcDark) = Join(<< N_Arc, N_ArcLight >>)

\* dirs with the entries of the second directory that the first one has too
\* taken out.
OnePathOnly(dirs) ==
  << dirs[1],
     [dirs[2] EXCEPT !.entries =
        SelectSeq(@, LAMBDA e : ~(dirs[1].exists /\ e.is_dir
                                   /\ \E j \in 1..Len(dirs[1].entries) :
                                        /\ dirs[1].entries[j].is_dir
                                        /\ dirs[1].entries[j].name = e.name))] >>

\* C15: a theme name that is a subdirectory of both search paths is one
\* theme: no key lists a name twice, and the table equals the one built with
\* the name in one of the paths only.
C15_DuplicatesCollapse ==
  fn.op = "generate_theme_map" =>
    /\ \A i \in 1..Len(fn.result) :
         LET list == Split(fn.result[i].k, ",")
         IN  \A a \in 1..Len(list), b \in 1..Len(list) :
               a # b => list[a] # list[b]
    /\ DictItems(fn.result) = DictItems(generate_theme_map(OnePathOnly(fn.dirs)))

\* C16: every scanned name is in the list of exactly one family of
\* theme_groups, the one of its stem whatever else was scanned, and is a
\* member of at most one key of the table.
C16_OneFamily ==
  fn.op = "generate_theme_map" =>
    \A n \in DirNames(fn.dirs) :
      /\ Cardinality({ i \in 1..Len(fn.groups) : n \in Elems(fn.groups[i].v) }) = 1
      /\ \A i \in 1..Len(fn.groups) :
           n \in Elems(fn.groups[i].v) => fn.groups[i].k = StemOf(n)
      /\ \A i \in 1..Len(fn.groups), j \in 1..Len(fn.groups) :
           i # j => fn.groups[i].k # fn.groups[j].k
      /\ Cardinality({ i \in 1..Len(fn.result) : n \in Members(fn.result[i].k) }) <= 1

\* C16 witness: Arc-light and Arc-Dark are in the family Arc, Mist-noir in
\* the family Mist, and Arc-Dark is a member of the one key "Arc-Dark".
C16_Witness ==
  /\ fn.op = "generate_theme_map"
  /\ DirNames(fn.dirs) = {N_ArcLight, N_ArcDark, N_MistNoir}
  /\ Len(fn.groups) = 2
  /\ { i \in 1..Len(fn.result) : N_ArcDark \in Members(fn.result[i].k) }
       = { DictIndex(fn.result, N_ArcDark) }
  /\ DictIndex(fn.result, N_ArcDark) > 0

\* C17 (as stated): the base name is the name with its first (leftmost) mode
\* suffix removed; a later suffix stays in the base name.
C17_FirstSuffixOnly ==
  fn.op = "base_name" =>
    fn.result =
      IF fn.suffixes = <<>> THEN fn.stem \o fn.tail
      ELSE fn.stem \o Flatten(Tail(fn.suffixes)) \o fn.tail

\* C17 (amended): the base name is the name with every occurrence of a mode
\* suffix (a hyphen and dark, light, black or noir, in any case) removed,
\* wherever it is in the name: of a name with two suffixes neither is kept,
\* and what follows a suffix is joined to what precedes it.
C17_EverySuffix ==
  fn.op = "base_name" => fn.result = fn.stem \o fn.tail

\* C17 witness: the base name of Arc-dark-light is Arc.
C17_Witness ==
  /\ fn.op = "base_name"
  /\ fn.stem = N_Arc /\ fn.suffixes = << X_dark, X_light >> /\ fn.tail = <<>>
  /\ fn.result = N_Arc

\* C18: load_config() after save_config(config) wrote the file returns
\* settings with the same four keys and the same value for each, whatever
\* the values are.
C18_RoundTrip ==
  fn.op = "save_load" =>
    /\ ~fn.loaded.raised
    /\ DOMAIN fn.loaded.value = Keys
    /\ \A k \in Keys : fn.loaded.value[k] = fn.saved[k]

\* C18 witness: a last_theme of a backslash and the letter n, which the file
\* holds as two backslashes and n, came back as it was.
C18_Witness ==
  /\ fn.op = "save_load"
  /\ fn.saved.last_theme = << "\\", "n" >>
  /\ fn.saved.auto_switch_enabled /\ fn.saved.dark_start = T_9
  /\ fn.loaded.value = fn.saved

\* C19: load_config never raises; it returns DEFAULT_CONFIG (auto-switch
\* off, 19:00, 05:00, no last theme) when the file does not exist, cannot be
\* read or does not hold a whole object, and the object the file holds
\* otherwise.
C19_LoadOrDefault ==
  fn.op = "load_config" =>
    /\ ~fn.result.raised
    /\ fn.result.value =
         IF fn.path.kind = "text" /\ fn.whole THEN fn.stored
         ELSE [auto_switch_enabled |-> FALSE, dark_start |-> T_1900,
               dark_end |-> T_0500, last_theme |-> <<>>]

\* C19 witness: the file holds the text of the default settings without its
\* last character, and load_config returned the defaults.
C19_Witness ==
  /\ fn.op = "load_config"
  /\ fn.path.kind = "text" /\ ~fn.whole
  /\ fn.stored = [dark_start |-> T_1900, dark_end |-> T_0500]
  /\ Len(fn.path.text) = Len(json_dump(fn.stored)) - 1
  /\ fn.result.value = DEFAULT_CONFIG

\* C20: the settings of the tray process change in the steps of its two
\* settings callbacks only (toggle_auto_switch and set_dark_interval; the
\* theme switches, the loop, the clock and the commands leave them alone),
\* and the file changes only when a callback or a settings command saves.
\* When a callback that changed the settings returns, the file holds the
\* settings of the tray process; when a settings command returns, the file
\* holds the settings the command loaded with the change it made.
C20_SavedAfterMutation ==
  [][/\ config' # config =>
          /\ \/ gpc = "w_end" /\ gpc' = "idle"
             \/ gpc = "idle" /\ events' = events + 1 /\ gres' \in {"running", "saved"}
          /\ UNCHANGED << envVars, xfconf, clock, loopVars, callVars, cli >>
     /\ file' # file =>
          /\ file'.kind = "json"
          /\ \/ gres' = "saved" /\ file'.obj = config' /\ cli' = cli
             \/ /\ cli'.cmd \in {"auto", "interval"} /\ events' = events + 1
                /\ config' = config
                /\ \A k \in DOMAIN load_config(file) :
                     k \in DOMAIN file'.obj
                /\ \A k \in DOMAIN file'.obj :
                     \/ k \in DOMAIN load_config(file)
                          /\ file'.obj[k] = load_config(file)[k]
                     \/ cli'.cmd = "auto" /\ k = "auto_switch_enabled"
                     \/ cli'.cmd = "interval" /\ k \in {"dark_start", "dark_end"}
     /\ ((gpc = "w_end" /\ gpc' = "idle")
           \/ (gpc = "idle" /\ gpc' = "idle" /\ config' # config)) =>
          /\ gres' = "saved"
          /\ file' = [kind |-> "json", obj |-> config']
     /\ (\E t \in Threads : tpc'[t] # tpc[t]) => UNCHANGED << config, file >>]_vars

\* C20 witness: set_dark_interval returned after the user entered
\* 22:00-06:00, and the file holds the settings of the tray process with
\* that window.
C20_Witness ==
  /\ gpc = "idle" /\ gres = "saved"
  /\ config["dark_start"] = << "2", "2", ":", "0", "0" >>
  /\ config["dark_end"] = << "0", "6", ":", "0", "0" >>
  /\ file = [kind |-> "json", obj |-> config]

\* C21: when the write of the settings file fails, the callback that
\* changed a setting still returns without an error and the settings in
\* memory hold the new value; every later evaluation of the auto-switch
\* thread reads the flag and the window from the settings in memory, whatever
\* the file holds.
C21_UnsavedKept ==
  [][/\ (gpc = "idle" /\ gpc' = "idle" /\ config' # config) =>
          /\ gres' \in {"saved", "unsaved"}
          /\ config' = Put(config, "auto_switch_enabled",
                            ~config["auto_switch_enabled"])
     /\ (gres' = "unsaved" /\ gpc = "w_end") =>
          /\ gpc' = "idle"
          /\ config' = Put(config, "dark_end", g_end)
     /\ (gpc = "w_end" /\ gpc' # "w_end") => gres' \in {"saved", "unsaved"}
     /\ (file'.kind = "broken" /\ file.kind # "broken") =>
          /\ gres' = "unsaved" /\ gpc' = "idle"
          /\ gpc = "w_end" \/ config' # config
     /\ (lpc = "eval" /\ lpc' # "eval") =>
          (lpc' = "mode") = Get(config, "auto_switch_enabled", FALSE)
     /\ (lpc = "start" /\ lpc' = "end") => l_start' = config["dark_start"]
     /\ (lpc = "end" /\ l_decided') =>
          /\ l_end' = config["dark_end"]
          /\ l_dark' = InWindow(config["dark_start"], config["dark_end"],
                                strftime(ClockReadings[clock]))
               \/ l_start # config["dark_start"]
               \/ l_now # strftime(ClockReadings[clock])]_vars

\* C21 witness: toggle_auto_switch switched the flag on, the write failed
\* and the file still does not exist, and the thread, having read the flag
\* as set, is in an evaluation.
C21_Witness ==
  /\ gres = "unsaved" /\ gpc = "idle"
  /\ file.kind = "absent"
  /\ ~Get(load_config(file), "auto_switch_enabled", FALSE)
  /\ Get(config, "auto_switch_enabled", FALSE)
  /\ lpc = "mode"

\* The commands of cli.py.
CliCommands ==
  {"list", "current", "toggle", "set", "config", "auto", "interval", "time"}

\* The handler of command cmd raises in this state: get_current_theme and
\* set_theme run xfconf-query, which is not installed; is_dark_time
\* subscripts the loaded settings with a key they do not have.
HandlerRaises(cmd) ==
  \/ cmd \in {"current", "toggle", "set"} /\ xfconf = "missing"
  \/ cmd = "time" /\ ~({"dark_start", "dark_end"} \subseteq DOMAIN load_config(file))

\* C22: a command of cli.py ends with exit code 0 when its handler returned
\* and with exit code 1 exactly when its handler raised an exception; a
\* toggle that found no counterpart has returned, with exit code 0.
C22_ExitCodes ==
  [][cli' # cli =>
       /\ cli'.cmd \in CliCommands
       /\ cli'.exit = (IF HandlerRaises(cli'.cmd) THEN 1 ELSE 0)
       /\ (cli'.report = "error") = HandlerRaises(cli'.cmd)
       /\ cli'.report = "no_counterpart" =>
            cli'.cmd = "toggle" /\ cli'.exit = 0]_vars

\* C22 witness: `time` ended with exit code 1 on a settings file that has
\* no window keys.
C22_Witness ==
  /\ cli.cmd = "time" /\ cli.exit = 1
  /\ file.kind = "json" /\ "dark_start" \notin DOMAIN file.obj

C24_WritesInOrder ==
  [][\A t \in Threads :
       /\ (tpc[t] = "set" /\ tpc'[t] # "set") =>
            /\ twrites[t] = 0 /\ twrites'[t] = 1
            /\ xfwm4' = xfwm4
            /\ (tpc'[t] = "xfwm") = HasXfwm4(THEME_DIRS, tcp[t])
       /\ (tpc[t] = "xfwm" /\ tpc'[t] # "xfwm") =>
            /\ HasXfwm4(THEME_DIRS, tcp[t])
            /\ twrites[t] = 1 /\ twrites'[t] = 2
            /\ xsettings' = xsettings
       /\ twrites'[t] <= 2]_vars

\* C25: the tray process loads the settings file at start only. A command
\* `auto` or `interval` that writes the file leaves the settings of the tray
\* process and its thread as they are; a change of the settings of the tray
\* process always changes only the key a callback sets, never to a value
\* taken from the file; the thread reads the window from the settings of
\* the tray process; and a write by the tray process puts its whole settings
\* in the file, so that what a command wrote before is gone.
C25_FileReadOnce ==
  [][/\ (cli' # cli /\ cli'.cmd \in {"auto", "interval"}) =>
          UNCHANGED << config, loopVars, gtkVars >>
     /\ \A k \in DOMAIN config' :
          /\ k \in DOMAIN config
          /\ \/ config'[k] = config[k]
             \/ /\ k = "auto_switch_enabled" /\ config'[k] = ~config[k]
                /\ gpc = "idle" /\ gpc' = "idle"
             \/ k = "dark_start" /\ gpc = "idle" /\ gpc' = "w_end"
             \/ k = "dark_end" /\ gpc = "w_end" /\ config'[k] = g_end
     /\ (lpc = "start" /\ lpc' = "end") => l_start' = config["dark_start"]
     /\ (lpc = "end" /\ l_decided') => l_end' = config["dark_end"]
     /\ ((gpc = "w_end" /\ gpc' = "idle")
           \/ (gpc = "idle" /\ gpc' = "idle" /\ config' # config)) =>
          /\ file'.kind = "json"
          /\ DOMAIN file'.obj = DOMAIN config'
          /\ \A k \in DOMAIN config' : file'.obj[k] = config'[k]]_vars

\* C25 witness: `interval` wrote a window of its own to the file, then a
\* callback of the tray process saved: the file holds the settings of the
\* tray process, whose window is not the one the command wrote.
C25_Witness ==
  /\ cli.cmd = "interval" /\ gres = "saved"
  /\ file = [kind |-> "json", obj |-> config]
  /\ \A a \in CliIntervals : config["dark_start"] # a[1]

\* C26: no step of a toggle_theme or set_theme call, on the GTK thread, the
\* hotkey thread or the auto-switch thread, and no command `toggle` or
\* `set`, changes the settings or the settings file; no step that changes
\* the active theme or the window-manager theme does; and last_theme, in
\* the settings and in the file, is never given another value.
C26_SwitchLeavesSettings ==
  [][/\ (\E t \in Threads : tpc'[t] # tpc[t] \/ twrites'[t] # twrites[t]) =>
          /\ config' = config
          /\ file' = file
     /\ (cli' # cli /\ cli'.cmd \in {"toggle", "set"}) =>
          /\ config' = config
          /\ file' = file
     /\ (xsettings' # xsettings \/ xfwm4' # xfwm4) =>
          /\ config' = config
          /\ file' = file
     /\ Get(config', "last_theme", None) = Get(config, "last_theme", None)
     /\ Get(load_config(file'), "last_theme", None)
          = Get(load_config(file), "last_theme", None)]_vars

\* C26 witness: the hotkey's toggle made Arc-Black the active theme and has
\* returned; last_theme is the empty string of the defaults and no settings
\* file exists.
C26_Witness ==
  /\ tres["hotkey"] = "dark" /\ xsettings = N_ArcBlack
  /\ "last_theme" \in DOMAIN config /\ config["last_theme"] = <<>>
  /\ file.kind = "absent"

\* C27 (as stated): the theme that the toggle_theme call of an evaluation of
\* the auto-switch thread writes as the active theme has the mode of the
\* verdict of that evaluation: dark when is_dark_time returned True, light
\* otherwise; whatever the other threads did since the evaluation read the
\* mode.
C27_LoopAppliesVerdict ==
  [][(tpc["loop"] = "set" /\ tpc'["loop"] # "set" /\ xfconf = "ok") =>
       /\ xsettings' = tcp["loop"]
       /\ get_current_mode(xsettings') = (IF l_dark THEN "dark" ELSE "light")]_vars

\* The mode the verdict of is_dark_time calls for, on the settings and the
\* clock as they are.
VerdictMode ==
  IF is_dark_time(config["dark_start"], config["dark_end"],
                  strftime(ClockReadings[clock]))
  THEN "dark" ELSE "light"

\* Auto-switch is enabled, the active theme has a counterpart in the table
\* and xfconf-query accepts writes.
Switchable ==
  /\ Get(config, "auto_switch_enabled", FALSE)
  /\ IsPaired(xsettings)
  /\ xfconf = "ok"

\* C28: with auto-switch enabled, the same verdict throughout, an active
\* theme that has a counterpart, accepted writes and nobody but the
\* auto-switch thread acting: an evaluation ends, and whenever one has ended
\* the mode of the active theme is the verdict's; and once the mode is the
\* verdict's, no evaluation calls toggle_theme and the active theme stays
\* as it is.
C28_NoOscillation ==
  /\ [](Switchable /\ lpc = "sleep" => get_current_mode(xsettings) = VerdictMode)
  /\ [][(Switchable /\ get_current_mode(xsettings) = VerdictMode) =>
          /\ xsettings' = xsettings
          /\ lpc # "toggle" => lpc' # "toggle"]_vars
  /\ (Switchable ~> (lpc = "sleep" /\ get_current_mode(xsettings) = VerdictMode))
  /\ (Switchable => []<>(lpc = "eval"))

\* C28 witness: at 12:00, outside the window, an evaluation applied Arc for
\* a dark theme, window-manager theme included, and a later evaluation has
\* found the mode light and called nothing.
C28_Witness ==
  /\ Switchable /\ clock = 2 /\ VerdictMode = "light"
  /\ xsettings = N_Arc /\ xfwm4 = N_Arc
  /\ lpc = "sleep" /\ l_decided /\ l_mode = "light" /\ l_toggles = 0

\* The themes of the directories that are of the family and of the mode of
\* name: its side of the family.
SideOf(dirs, name) ==
  { n \in FamilyIn(DirNames(dirs), name) :
      get_current_mode(n) = get_current_mode(name) }

C30_AllKeysPresent ==
  /\ Keys \subseteq DOMAIN config
  /\ gres # "raised"
  /\ ~(l_err /\ lpc = "sleep" /\ l_mode # "none" /\ ~l_decided)

====
